---- MODULE Spec2Model ----
(***************************************************************************)
(* Offline-first expense cache of expense-split-pwa.                       *)
(*                                                                         *)
(* The model follows src/src/lib/syncQueue.js (the sync queue and its      *)
(* drain), src/src/lib/db.js (the IndexedDB object stores) and the         *)
(* offlineExpenseCache store of src/src/lib/expenseUtils.js.               *)
(*                                                                         *)
(* JavaScript runs each continuation to completion, so one action of the   *)
(* model is the code between two awaits.  IndexedDB runs the transactions  *)
(* on one object store in the order they were created, so a store          *)
(* operation takes effect in the step that issues it and its continuation  *)
(* is the next step of the same activation.  A remote call takes effect    *)
(* on the server in the step in which its response arrives.                *)
(*                                                                         *)
(* Encodings: a locally generated string key "local_..." is a negative     *)
(* integer, a remote (numeric) id is a positive integer, 0 is null.  A     *)
(* person reference is <<"id", p>> (a bare partner id), <<"pair", p>>      *)
(* (Odoo's [id, name]), <<"name", p>> (the display name of partner p) or   *)
(* <<"str", p>> (String(id)).                                              *)
(*                                                                         *)
(* Bounds: at most MaxStarts activations are started, of which NumTasks    *)
(* may overlap; createExpense, updateExpense and deleteExpense run with    *)
(* nothing else in flight, while sync, processSyncQueue and                *)
(* retryFailedItems overlap freely.  syncQueue.js's updateSyncStatus only  *)
(* refreshes two display counters and is left out.                         *)
(*                                                                         *)
(* The specifications share the variables.  Spec and LiveSpec are the      *)
(* offline cache with its queue.  CacheSpec is the localStorage cache of   *)
(* src/src/lib/stores/expenseCache.js, with other clients creating,        *)
(* changing and deleting records on the server.  BalanceSpec applies       *)
(* calculateBalances (expenseUtils.js and src/unnamed/part_001) and        *)
(* calculateSettlements to every list of at most two expenses drawn from   *)
(* the sets below it, and MixedSpec does so for lists that hold expenses   *)
(* without a payer, an amount or participants.  ServiceSpec is the Dexie   *)
(* variant, SyncService (src/unnamed/part_000) over the tables of          *)
(* src/src/db/index.js: at most MaxCalls calls of syncAll and MaxOps calls *)
(* of dbOps.  AppSpec is a page that runs either of the two apps.          *)
(***************************************************************************)
EXTENDS Integers, Sequences, FiniteSets, TLC

\* ---------------------------------------------------------------- bounds
NumTasks == 2
MaxLocal == 2
MaxRemoteId == 3
MaxQueueId == 3
MaxTime == 2
MaxStarts == 2
NumPartners == 2
NumPeople == 3
MaxParticipants == 3
NumCycles == 2
MaxCalls == 3
MaxOps == 1
NumGroups == 2
MaxSets == 2
MaxGroupSyncs == 1

\* ------------------------------------------------------ program constants
MaxRetries == 5

Tasks == 1..NumTasks
Partners == 1..NumPartners
Null == 0

Min(a, b) == IF a < b THEN a ELSE b

IsLocalId(id) == id < 0
IsRemoteId(id) == id > 0

\* ---------------------------------------------------------------- db.js
\* an object store is a function from primary keys to records
EmptyStore == [k \in {} |-> Null]

put(store, record) ==
  [k \in DOMAIN store \cup {record.id} |-> IF k = record.id THEN record ELSE store[k]]

RECURSIVE putMany(_, _)
putMany(store, records) ==
  IF records = <<>> THEN store
  ELSE putMany(put(store, Head(records)), Tail(records))

remove(store, id) == [k \in DOMAIN store \ {id} |-> store[k]]

\* IDBObjectStore.getAll: the records in ascending key order; IndexedDB orders
\* number keys before string keys
KeyBefore(a, b) ==
  IF IsRemoteId(a) /\ IsRemoteId(b) THEN a < b
  ELSE IF IsLocalId(a) /\ IsLocalId(b) THEN a > b
  ELSE IsRemoteId(a)

RECURSIVE getAll(_)
getAll(store) ==
  IF DOMAIN store = {} THEN <<>>
  ELSE LET k == CHOOSE x \in DOMAIN store : \A y \in DOMAIN store : x = y \/ KeyBefore(x, y)
       IN <<store[k]>> \o getAll(remove(store, k))

RECURSIVE SelectSeq2(_, _)
SelectSeq2(s, value) ==
  IF s = <<>> THEN <<>>
  ELSE IF Head(s).status = value THEN <<Head(s)>> \o SelectSeq2(Tail(s), value)
  ELSE SelectSeq2(Tail(s), value)

\* getByIndex(storeName, 'status', value): the index yields equal keys in
\* primary-key order
getByIndex(store, value) == SelectSeq2(getAll(store), value)

\* ------------------------------------------------- person references
Raw(p) == <<"id", p>>
Pair(p) == <<"pair", p>>
Name(p) == <<"name", p>>
Str(p) == <<"str", p>>
NoPerson == <<"none", 0>>

Range(s) == {s[i] : i \in DOMAIN s}

\* {...a, ...b}
Spread(a, b) ==
  [f \in DOMAIN a \cup DOMAIN b |-> IF f \in DOMAIN b THEN b[f] ELSE a[f]]

\* ------------------------------------ expenseUtils.js: balance calculator
normalizePerson(person) ==
  IF person = NoPerson THEN NoPerson
  ELSE IF person[1] = "pair" THEN Name(person[2])
  ELSE IF person[1] = "id" THEN Str(person[2])
  ELSE person

normalizeParticipants(raw) == [i \in DOMAIN raw |-> normalizePerson(raw[i])]

RECURSIVE SplitAmong(_, _, _)
SplitAmong(balances, participants, sharePerPerson) ==
  IF participants = <<>> THEN balances
  ELSE SplitAmong([balances EXCEPT ![Head(participants)] = @ - sharePerPerson],
                  Tail(participants), sharePerPerson)

\* an iteration that divides by the number of different participants
AddExpenseAmongDistinct(balances, expense) ==
  LET payer == normalizePerson(expense.x_studio_who_paid)
      amount == expense.x_studio_value
      participants == normalizeParticipants(expense.x_studio_participants)
  IN IF payer = NoPerson \/ Len(participants) = 0 \/ amount <= 0 THEN balances
     ELSE LET people == {payer} \cup Range(participants)
              initialized == [q \in DOMAIN balances \cup people |->
                                IF q \in DOMAIN balances THEN balances[q] ELSE 0]
              credited == [initialized EXCEPT ![payer] = @ + amount]
          IN SplitAmong(credited, participants, amount \div Cardinality(Range(participants)))

\* an iteration that creates the keys before it looks whether the expense counts
AddExpenseKeysFirst(balances, expense) ==
  LET payer == normalizePerson(expense.x_studio_who_paid)
      amount == expense.x_studio_value
      participants == normalizeParticipants(expense.x_studio_participants)
      people == ({payer} \cup Range(participants)) \ {NoPerson}
      initialized == [q \in DOMAIN balances \cup people |->
                        IF q \in DOMAIN balances THEN balances[q] ELSE 0]
  IN IF payer = NoPerson \/ Len(participants) = 0 \/ amount <= 0 THEN initialized
     ELSE SplitAmong([initialized EXCEPT ![payer] = @ + amount],
                     participants, amount \div Len(participants))

\* one iteration of the loop of calculateBalances; the amounts of the model
\* are multiples of the number of participants, so the share is exact
AddExpense(balances, expense) ==
  LET payer == normalizePerson(expense.x_studio_who_paid)
      amount == expense.x_studio_value
      participants == normalizeParticipants(expense.x_studio_participants)
  IN IF payer = NoPerson \/ Len(participants) = 0 \/ amount <= 0 THEN balances
     ELSE LET people == {payer} \cup Range(participants)
              initialized == [q \in DOMAIN balances \cup people |->
                                IF q \in DOMAIN balances THEN balances[q] ELSE 0]
              credited == [initialized EXCEPT ![payer] = @ + amount]
          IN SplitAmong(credited, participants, amount \div Len(participants))

RECURSIVE BalancesFrom(_, _)
BalancesFrom(balances, expenses) ==
  IF expenses = <<>> THEN balances
  ELSE BalancesFrom(AddExpense(balances, Head(expenses)), Tail(expenses))

calculateBalances(expenses) == BalancesFrom(EmptyStore, expenses)

\* ---------------------- offlineExpenseCache: resolvePartnerNames, loadFromDB
\* The partners store holds every partner, so partnerMap.get(id) always hits.
ResolvePerson(ref) ==
  IF ref[1] \in {"pair", "id"} THEN Name(ref[2]) ELSE ref

ResolveExpense(expense) ==
  IF "x_studio_participants" \in DOMAIN expense
  THEN [expense EXCEPT !.x_studio_who_paid = ResolvePerson(@),
                       !.x_studio_participants = [i \in DOMAIN @ |-> ResolvePerson(@[i])]]
  ELSE [expense EXCEPT !.x_studio_who_paid = ResolvePerson(@)]

resolvePartnerNames(expenses) == [i \in DOMAIN expenses |-> ResolveExpense(expenses[i])]

\* expenses.sort((a, b) => aId - bId) with aId = 0 for a string id: a stable
\* sort, so the local records come first, in getAll's order
SortKey(e) == IF IsRemoteId(e.id) THEN e.id ELSE 0

RECURSIVE InsertById(_, _)
InsertById(e, s) ==
  IF s = <<>> THEN <<e>>
  ELSE IF SortKey(Head(s)) <= SortKey(e) THEN <<Head(s)>> \o InsertById(e, Tail(s))
  ELSE <<e>> \o s

RECURSIVE SortById(_)
SortById(s) ==
  IF s = <<>> THEN <<>>
  ELSE InsertById(s[Len(s)], SortById(SubSeq(s, 1, Len(s) - 1)))

loadFromDB(store) == resolvePartnerNames(SortById(getAll(store)))

\* ----------------------------------------------------- syncQueue.js: queue
RECURSIVE InsertByTimestamp(_, _)
InsertByTimestamp(x, s) ==
  IF s = <<>> THEN <<x>>
  ELSE IF Head(s).timestamp <= x.timestamp THEN <<Head(s)>> \o InsertByTimestamp(x, Tail(s))
  ELSE <<x>> \o s

\* Array.prototype.sort((a, b) => a.timestamp - b.timestamp), a stable sort
RECURSIVE SortByTimestamp(_)
SortByTimestamp(s) ==
  IF s = <<>> THEN <<>>
  ELSE InsertByTimestamp(s[Len(s)], SortByTimestamp(SubSeq(s, 1, Len(s) - 1)))

getPendingItems(pending, failed) == SortByTimestamp(pending \o failed)

\* the item queueOperation builds; a missing localId is replaced by a fresh
\* random key that names no record (Null here)
NewItem(id, operation, data, localId, remoteId, timestamp) ==
  [id |-> id, operation |-> operation, model |-> "expense", data |-> data,
   localId |-> localId, remoteId |-> remoteId, timestamp |-> timestamp,
   status |-> "pending", error |-> "", retryCount |-> 0]

NoData == [x_studio_who_paid |-> NoPerson]

\* -------------------------- lib/stores/expenseCache.js: localStorage
\* lines 64-72: what loadFromStorage returns when nothing is stored; isStale,
\* which only initialize reads, is left out of the metadata
NoMeta == [lastSyncTime |-> 0, lastRecordId |-> 0, recordCount |-> 0]

NoCache == [expenses |-> <<>>, meta |-> NoMeta]

\* the two keys absent
NoStorage == [present |-> FALSE, expenses |-> <<>>, meta |-> NoMeta]

\* lines 42-73
loadFromStorage(storage) ==
  IF storage.present THEN [expenses |-> storage.expenses, meta |-> storage.meta]
  ELSE NoCache

\* lines 75-87; lastSyncTime is truthy whenever sync passes it
saveToStorage(expenses, meta) ==
  [present |-> TRUE, expenses |-> expenses,
   meta |-> [lastSyncTime |-> meta.lastSyncTime, lastRecordId |-> meta.lastRecordId,
             recordCount |-> Len(expenses)]]

\* lines 89-96
clearStorage(storage) == NoStorage

\* lines 101-111: the store as createExpenseCacheStore builds it
cacheInitialState(storage) ==
  [expenses |-> loadFromStorage(storage).expenses, loading |-> FALSE, syncing |-> FALSE,
   error |-> "", meta |-> loadFromStorage(storage).meta,
   balances |-> calculateBalances(loadFromStorage(storage).expenses)]

\* the locals of one call of sync; totalCount is <<>> until the count check
\* has been answered and <<n>> after. stored is a history field no code
\* reads: what localStorage held when forceRefresh was called.
IdleCycle ==
  [pc |-> "idle", force |-> FALSE, current |-> NoCache, fetched |-> <<>>,
   totalCount |-> <<>>, merged |-> <<>>, stored |-> NoStorage]

\* --------------------------------- balances and settlements as pure functions
\* Amounts are counted in twelfths of a cent: the inputs are whole cents and
\* at most MaxParticipants people share one, so every share is exact.
Cent == 12

People == 1..NumPeople

\* Number.prototype.toFixed(2) of a non-negative amount, and
\* Math.round(x * 100) / 100: the nearest cent, a half going up (in floating
\* point a half cent without an exact binary form can fall on either side)
toFixed2(x) == Cent * ((2 * x + Cent) \div (2 * Cent))

\* Object.entries lists the keys that are array indices ('1', '2', the
\* String of a bare partner id) in ascending order before the other keys,
\* which come in the order they were added
IsIndexKey(k) == k[1] = "str"

RECURSIVE IndexKeys(_, _)
IndexKeys(keys, n) ==
  IF n > NumPeople THEN <<>>
  ELSE IF Str(n) \in Range(keys) THEN <<Str(n)>> \o IndexKeys(keys, n + 1)
  ELSE IndexKeys(keys, n + 1)

PropertyOrder(keys) ==
  IndexKeys(keys, 1) \o SelectSeq(keys, LAMBDA k : ~IsIndexKey(k))

RECURSIVE AddKeys(_, _)
AddKeys(keys, people) ==
  IF people = <<>> THEN keys
  ELSE IF Head(people) \in Range(keys) THEN AddKeys(keys, Tail(people))
  ELSE AddKeys(Append(keys, Head(people)), Tail(people))

\* expenseUtils.js lines 84-90: the keys one expense adds to the object
KeysOfExpense(keys, expense) ==
  LET payer == normalizePerson(expense.x_studio_who_paid)
      participants == normalizeParticipants(expense.x_studio_participants)
  IN IF payer = NoPerson \/ Len(participants) = 0 \/ expense.x_studio_value <= 0 THEN keys
     ELSE AddKeys(keys, <<payer>> \o participants)

RECURSIVE KeysFrom(_, _)
KeysFrom(keys, expenses) ==
  IF expenses = <<>> THEN keys
  ELSE KeysFrom(KeysOfExpense(keys, Head(expenses)), Tail(expenses))

\* entries that leave out the people whose balance is zero
balanceEntriesNonZero(expenses) ==
  LET keys == SelectSeq(PropertyOrder(KeysFrom(<<>>, expenses)),
                        LAMBDA k : calculateBalances(expenses)[k] # 0)
  IN [i \in DOMAIN keys |->
        [person |-> keys[i], balance |-> calculateBalances(expenses)[keys[i]]]]

\* Object.entries(calculateBalances(expenses))
balanceEntries(expenses) ==
  LET keys == PropertyOrder(KeysFrom(<<>>, expenses))
  IN [i \in DOMAIN keys |->
        [person |-> keys[i], balance |-> calculateBalances(expenses)[keys[i]]]]

\* part_001 lines 73-85: getPartnerName with every partner in partnerMap; a
\* name given as a string is not a number and comes back as 'Partner <name>'
getPartnerName(id) ==
  IF id = NoPerson THEN NoPerson
  ELSE IF id[1] \in {"id", "pair"} THEN Name(id[2])
  ELSE <<"Partner", id[2]>>

\* part_001 lines 88-122: one iteration of the loop
vueAddExpense(entries, expense) ==
  LET amount == expense.x_studio_value
      payer == getPartnerName(expense.x_studio_who_paid)
      participants == [i \in DOMAIN expense.x_studio_participants |->
                         getPartnerName(expense.x_studio_participants[i])]
      keys == AddKeys([i \in DOMAIN entries |-> entries[i].person], <<payer>> \o participants)
      Old(k) == IF \E i \in DOMAIN entries : entries[i].person = k
                THEN entries[CHOOSE i \in DOMAIN entries : entries[i].person = k].balance
                ELSE 0
      Listed(k) == Cardinality({i \in DOMAIN participants : participants[i] = k})
      sharePerPerson == amount \div Len(participants)
  IN IF amount <= 0 \/ payer = NoPerson \/ Len(participants) = 0 THEN entries
     ELSE [i \in DOMAIN keys |->
             [person |-> keys[i],
              balance |-> Old(keys[i]) + (IF keys[i] = payer THEN amount ELSE 0)
                            - Listed(keys[i]) * sharePerPerson]]

RECURSIVE vueBalancesFrom(_, _)
vueBalancesFrom(entries, expenses) ==
  IF expenses = <<>> THEN entries
  ELSE vueBalancesFrom(vueAddExpense(entries, Head(expenses)), Tail(expenses))

\* part_001 lines 63-131: the balances, rounded to cents, as Object.entries
\* lists them
vueCalculateBalances(expenses) ==
  LET entries == vueBalancesFrom(<<>>, expenses)
  IN [i \in DOMAIN entries |-> [entries[i] EXCEPT !.balance = toFixed2(@)]]

\* expenseUtils.js lines 125-144 (part_001 lines 155-172): the loop
RECURSIVE SettleLoop(_, _, _, _, _)
SettleLoop(creditors, debtors, i, j, settlements) ==
  IF ~(i <= Len(creditors) /\ j <= Len(debtors)) THEN settlements
  ELSE LET creditor == creditors[i]
           debtor == debtors[j]
           amount == Min(creditor.amount, debtor.amount)
           transfer == [from |-> debtor.person, to |-> creditor.person,
                        amount |-> toFixed2(amount)]
       IN SettleLoop([creditors EXCEPT ![i].amount = @ - amount],
                     [debtors EXCEPT ![j].amount = @ - amount],
                     IF creditor.amount - amount < Cent THEN i + 1 ELSE i,
                     IF debtor.amount - amount < Cent THEN j + 1 ELSE j,
                     Append(settlements, transfer))

\* a settlement calculator that leaves the last debtor out
settlementsSkipLastDebtor(entries) ==
  LET over == SelectSeq(entries, LAMBDA e : e.balance > Cent)
      under == SelectSeq(entries, LAMBDA e : e.balance < 0 - Cent)
      creditors == [i \in DOMAIN over |-> [person |-> over[i].person, amount |-> over[i].balance]]
      debtors == [i \in 1..(Len(under) - 1) |->
                    [person |-> under[i].person, amount |-> 0 - under[i].balance]]
  IN SettleLoop(creditors, debtors, 1, 1, <<>>)

\* expenseUtils.js lines 110-147 (part_001 lines 138-175), on the entries of
\* the balances object
calculateSettlements(entries) ==
  LET over == SelectSeq(entries, LAMBDA e : e.balance > Cent)
      under == SelectSeq(entries, LAMBDA e : e.balance < 0 - Cent)
      creditors == [i \in DOMAIN over |-> [person |-> over[i].person, amount |-> over[i].balance]]
      debtors == [i \in DOMAIN under |->
                    [person |-> under[i].person, amount |-> 0 - under[i].balance]]
  IN SettleLoop(creditors, debtors, 1, 1, <<>>)

\* nothing calculated yet
NoCalc == [expenses |-> <<>>, by |-> "input", entries |-> <<>>, settled |-> FALSE,
           settlements |-> <<>>]

\* ----------------------------- db/index.js and SyncService (the Dexie variant)
\* The variant keeps its own database: table expenses keyed by localId, table
\* syncQueue keyed by an auto-incremented id, and the server it talks to.  The
\* whole of it is one record, and each operator below is the code between two
\* awaits as a function from that record to the next one.  Of an expense the
\* fields localId, id, x_studio_value and syncStatus are kept; the master
\* data tables and the timestamps are left out; every queue item has type
\* 'expense'.  Local keys and server ids are positive integers, 0 is null.

\* part_000 line 120
SvcMaxRetries == 3

Cycles == 1..NumCycles

\* the locals of one activation of syncAll
IdleSvcCycle ==
  [pc |-> "idle", items |-> <<>>, idx |-> 0, serverExpenses |-> <<>>,
   localExpenses |-> <<>>]

\* the locals of one dbOps call
NoOp == [pc |-> "idle", kind |-> "none", localId |-> Null, value |-> 0, expense |-> <<>>]

\* part_000 lines 5-9, and the database before anything was stored; calls,
\* dropped, ops and events are history fields no code reads: how often
\* syncAll was called, how often it returned at once because isSyncing was
\* set, how many dbOps calls were made, and the events the callbacks were
\* called with
NoService ==
  [isSyncing |-> FALSE, syncInterval |-> FALSE, events |-> <<>>, calls |-> 0,
   dropped |-> 0,
   expenses |-> EmptyStore, nextLocalId |-> 1,
   syncQueue |-> EmptyStore, nextItemId |-> 1,
   server |-> EmptyStore, nextServerId |-> 1,
   lastSync |-> Null,
   cycle |-> [c \in Cycles |-> IdleSvcCycle],
   op |-> NoOp, ops |-> 0]

\* db/index.js lines 128-135, 156-163, 176-183
SvcItem(id, action, data) ==
  [id |-> id, type |-> "expense", action |-> action, data |-> data,
   retries |-> 0, status |-> "pending", lastError |-> ""]

\* Table.toArray(): the records in ascending primary-key order
RECURSIVE toArrayFrom(_, _, _)
toArrayFrom(table, key, last) ==
  IF key > last THEN <<>>
  ELSE IF key \in DOMAIN table
       THEN <<table[key]>> \o toArrayFrom(table, key + 1, last)
       ELSE toArrayFrom(table, key + 1, last)

toArray(table, last) == toArrayFrom(table, 1, last)

\* db/index.js lines 198-203
getPendingSyncItems(s) ==
  SelectSeq(toArray(s.syncQueue, s.nextItemId), LAMBDA item : item.status = "pending")

\* db/index.js lines 205-207; Table.update changes nothing when the key is gone
updateSyncItem(s, id, updates) ==
  IF id \in DOMAIN s.syncQueue
  THEN [s EXCEPT !.syncQueue[id] = Spread(@, updates)]
  ELSE s

\* Table.put and Table.add under a given primary key
tablePut(table, key, record) ==
  [k \in DOMAIN table \cup {key} |-> IF k = key THEN record ELSE table[k]]

\* db.syncQueue.add
syncQueueAdd(s, action, data) ==
  [s EXCEPT !.syncQueue = tablePut(@, s.nextItemId, SvcItem(s.nextItemId, action, data)),
            !.nextItemId = @ + 1]

\* db.expenses.where(field).equals(value).modify(changes)
modifyWhere(table, field, value, changes) ==
  [k \in DOMAIN table |->
     IF table[k][field] = value THEN Spread(table[k], changes) ELSE table[k]]

\* part_000 lines 20-22
emitSyncEvent(s, event) == [s EXCEPT !.events = Append(@, event)]

\* the slot a new activation of syncAll takes
FreeCycle(s) ==
  CHOOSE c \in Cycles :
    /\ s.cycle[c].pc = "idle"
    /\ \A d \in Cycles : d < c => s.cycle[d].pc # "idle"

\* an activation that starts whether or not another one is running
syncAllWithoutGuard(s, isOnline) ==
  IF ~isOnline \/ \A c \in Cycles : s.cycle[c].pc # "idle" THEN s
  ELSE [emitSyncEvent([s EXCEPT !.isSyncing = TRUE], "sync:start") EXCEPT
          !.cycle[FreeCycle(s)].pc = "fetchPartners"]

\* part_000 lines 50-57 and 81: up to the request fetchPartners sends
syncAll(s, isOnline) ==
  IF s.isSyncing THEN [s EXCEPT !.dropped = @ + 1]
  ELSE IF ~isOnline THEN s
  ELSE [emitSyncEvent([s EXCEPT !.isSyncing = TRUE], "sync:start") EXCEPT
          !.cycle[FreeCycle(s)].pc = "fetchPartners"]

Called(s) == [s EXCEPT !.calls = @ + 1]

\* part_000 lines 41-46
stopAutoSync(s) == [s EXCEPT !.syncInterval = FALSE]

\* part_000 lines 25-38
startAutoSync(s, isOnline) ==
  LET restarted == [stopAutoSync(s) EXCEPT !.syncInterval = TRUE]
  IN IF isOnline THEN syncAll(Called(restarted), isOnline) ELSE restarted

\* part_000 lines 28-32: the interval fires
intervalFires(s, isOnline) ==
  IF isOnline /\ ~s.isSyncing THEN syncAll(Called(s), isOnline) ELSE s

\* part_000 lines 250-252
syncNow(s, isOnline) == syncAll(Called(s), isOnline)

\* part_000 lines 68-74: the last event of the activation and the finally block
svcEnd(s, c, event) ==
  [emitSyncEvent(s, event) EXCEPT !.isSyncing = FALSE, !.cycle[c] = IdleSvcCycle]

\* part_000 lines 81-82 and 89-92: fetchPartners answers; savePartners writes
fetchPartnersResponse(s, c, ok) ==
  IF ok THEN [s EXCEPT !.cycle[c].pc = "savePartners"]
  ELSE svcEnd(s, c, "sync:error")

\* part_000 line 85: the request fetchExpenseGroups sends
savePartnersDone(s, c) == [s EXCEPT !.cycle[c].pc = "fetchExpenseGroups"]

\* part_000 lines 85-86 and 89-92
fetchExpenseGroupsResponse(s, c, ok) ==
  IF ok THEN [s EXCEPT !.cycle[c].pc = "saveExpenseGroups"]
  ELSE svcEnd(s, c, "sync:error")

\* part_000 lines 88, 60 and 97: the query of getPendingSyncItems is issued
saveExpenseGroupsDone(s, c) ==
  [s EXCEPT !.cycle[c].pc = "getPendingSyncItems",
            !.cycle[c].items = getPendingSyncItems(s)]

\* the server's answer to searchExpenses([], fields): all records by id
searchAll(s) == toArray(s.server, s.nextServerId)

\* part_000 lines 99-101: the loop takes the item at idx and marks it
\* syncing; lines 125, 63 and 184: or the loop is over and pullExpenses
\* sends its query
svcLoop(s, c, idx) ==
  IF idx <= Len(s.cycle[c].items)
  THEN [updateSyncItem(s, s.cycle[c].items[idx].id, [status |-> "syncing"]) EXCEPT
          !.cycle[c].idx = idx, !.cycle[c].pc = "updateSyncItem"]
  ELSE [s EXCEPT !.cycle[c].idx = idx, !.cycle[c].pc = "searchExpenses"]

\* part_000 line 99
gotPendingSyncItems(s, c) == svcLoop(s, c, 1)

\* part_000 lines 103-104, 134, 156, 175: the remote call of the item is sent
syncExpenseItem(s, c) == [s EXCEPT !.cycle[c].pc = "syncExpenseItem"]

\* whether the server can answer the call of the item with success
SvcAccepts(s, item, isOnline) ==
  /\ isOnline
  /\ item.action = "create" => s.nextServerId <= MaxRemoteId
  /\ item.action = "update" => item.data.id \in DOMAIN s.server

\* the server after it has carried out the call of the item
SvcApply(s, item) ==
  IF item.action = "create"
  THEN [s EXCEPT !.server = put(@, [id |-> s.nextServerId,
                                    x_studio_value |-> item.data.x_studio_value]),
                 !.nextServerId = @ + 1]
  ELSE IF item.action = "update"
  THEN [s EXCEPT !.server[item.data.id].x_studio_value = item.data.x_studio_value]
  ELSE [s EXCEPT !.server = remove(@, item.data.id)]

\* part_000 lines 134-153, 156-172, 175-176 and 108: the call has succeeded;
\* lines 109-117: or it has failed, and the item is written back with status
\* 'error' and one more retry
syncExpenseItemResponse(s, c, ok) ==
  LET item == s.cycle[c].items[s.cycle[c].idx]
      s1 == SvcApply(s, item)
  IN IF ~ok
     THEN [updateSyncItem(s, item.id, [status |-> "error",
                                       retries |-> item.retries + 1,
                                       lastError |-> "Network error"]) EXCEPT
             !.cycle[c].pc = "error"]
     ELSE IF item.action = "create"
     THEN [s1 EXCEPT !.expenses = modifyWhere(@, "localId", item.data.localId,
                                              [id |-> s.nextServerId,
                                               syncStatus |-> "synced"]),
                     !.cycle[c].pc = "modify"]
     ELSE IF item.action = "update"
     THEN [s1 EXCEPT !.expenses = modifyWhere(@, "localId", item.data.localId,
                                              [syncStatus |-> "synced"]),
                     !.cycle[c].pc = "modify"]
     ELSE [s1 EXCEPT !.syncQueue = remove(@, item.id), !.cycle[c].pc = "delete"]

\* part_000 line 108
modified(s, c) ==
  [s EXCEPT !.syncQueue = remove(@, s.cycle[c].items[s.cycle[c].idx].id),
            !.cycle[c].pc = "delete"]

\* part_000 line 124: the next item
deleted(s, c) == svcLoop(s, c, s.cycle[c].idx + 1)

\* a failure handler that gives up the loop and goes on to the pull
markedErrorPulls(s, c) ==
  [s EXCEPT !.cycle[c].pc = "searchExpenses"]

\* part_000 lines 119-122: item is the record the loop read before the call
markedError(s, c) ==
  LET item == s.cycle[c].items[s.cycle[c].idx]
  IN IF item.retries >= SvcMaxRetries
     THEN [updateSyncItem(s, item.id, [status |-> "failed"]) EXCEPT
             !.cycle[c].pc = "failed"]
     ELSE svcLoop(s, c, s.cycle[c].idx + 1)

\* part_000 lines 123-124
markedFailed(s, c) == svcLoop(s, c, s.cycle[c].idx + 1)

\* part_000 lines 184-200: the server's records arrive and the local records
\* that have a server id are read; lines 243-246: or the query has failed
searchExpensesResponse(s, c, ok) ==
  IF ~ok THEN svcEnd(s, c, "sync:error")
  ELSE [s EXCEPT !.cycle[c].pc = "localExpenses",
                 !.cycle[c].serverExpenses = searchAll(s),
                 !.cycle[c].localExpenses =
                   SelectSeq(toArray(s.expenses, s.nextLocalId),
                             LAMBDA e : e.id # Null)]

\* part_000 lines 209-233: one record of the server is merged
mergeServerExpense(s, serverExp, localExpenses) ==
  IF \E i \in DOMAIN localExpenses : localExpenses[i].id = serverExp.id
  THEN [s EXCEPT !.expenses = modifyWhere(@, "id", serverExp.id,
                                          Spread(serverExp, [syncStatus |-> "synced"]))]
  ELSE [s EXCEPT !.expenses = tablePut(@, s.nextLocalId,
                                        Spread(serverExp, [localId |-> s.nextLocalId,
                                                           syncStatus |-> "synced"])),
                 !.nextLocalId = @ + 1]

RECURSIVE mergeServerExpenses(_, _, _)
mergeServerExpenses(s, serverExpenses, localExpenses) ==
  IF serverExpenses = <<>> THEN s
  ELSE mergeServerExpenses(mergeServerExpense(s, Head(serverExpenses), localExpenses),
                           Tail(serverExpenses), localExpenses)

\* part_000 lines 236-240
RECURSIVE removeMissing(_, _, _)
removeMissing(s, serverExpenses, localExpenses) ==
  IF localExpenses = <<>> THEN s
  ELSE LET localExp == Head(localExpenses)
           s1 == IF \E i \in DOMAIN serverExpenses : serverExpenses[i].id = localExp.id
                 THEN s
                 ELSE [s EXCEPT !.expenses = remove(@, localExp.localId)]
       IN removeMissing(s1, serverExpenses, Tail(localExpenses))

\* part_000 lines 203-242 and 66: the two loops of pullExpenses, taken as one
\* step, and the write of the lastSync setting
pulled(s, c, t) ==
  LET cy == s.cycle[c]
      merged == mergeServerExpenses(s, cy.serverExpenses, cy.localExpenses)
  IN [removeMissing(merged, cy.serverExpenses, cy.localExpenses) EXCEPT
        !.lastSync = t, !.cycle[c].pc = "setSetting"]

\* part_000 lines 68 and 72-74
settingSaved(s, c) == svcEnd(s, c, "sync:success")

\* db/index.js lines 115-125: the record is added
dbCreateExpense(s, value) ==
  LET newExpense == [localId |-> s.nextLocalId, id |-> Null, x_studio_value |-> value,
                     syncStatus |-> "pending"]
  IN [s EXCEPT !.expenses = tablePut(@, s.nextLocalId, newExpense),
               !.nextLocalId = @ + 1,
               !.ops = @ + 1,
               !.op = [NoOp EXCEPT !.pc = "added", !.kind = "createExpense",
                                   !.expense = <<newExpense>>]]

\* db/index.js lines 128-137
dbCreateQueued(s) == [syncQueueAdd(s, "create", s.op.expense[1]) EXCEPT !.op = NoOp]

\* db/index.js lines 142 and 169: the record is read
dbGet(s, kind, localId, value) ==
  [s EXCEPT !.ops = @ + 1,
            !.op = [NoOp EXCEPT !.pc = "got", !.kind = kind, !.localId = localId,
                                !.value = value,
                                !.expense = IF localId \in DOMAIN s.expenses
                                            THEN <<s.expenses[localId]>> ELSE <<>>]]

\* db/index.js lines 144-153: updateExpense writes the changed record; lines
\* 170-172: deleteExpense removes the record
dbGot(s) ==
  IF s.op.expense = <<>> THEN [s EXCEPT !.op = NoOp]
  ELSE IF s.op.kind = "updateExpense"
  THEN LET updatedExpense == Spread(Spread(s.op.expense[1],
                                           [x_studio_value |-> s.op.value]),
                                    [syncStatus |-> "pending"])
       IN [s EXCEPT !.expenses = tablePut(@, s.op.localId, updatedExpense),
                    !.op.pc = "written"]
  ELSE [s EXCEPT !.expenses = remove(@, s.op.localId), !.op.pc = "written"]

\* db/index.js lines 156-165 and 175-184
dbWritten(s) ==
  LET expense == s.op.expense[1]
  IN IF s.op.kind = "updateExpense"
     THEN [syncQueueAdd(s, IF expense.id # Null THEN "update" ELSE "create",
                        Spread(Spread(expense, [x_studio_value |-> s.op.value]),
                               [syncStatus |-> "pending"])) EXCEPT !.op = NoOp]
     ELSE IF expense.id # Null
     THEN [syncQueueAdd(s, "delete", [id |-> expense.id]) EXCEPT !.op = NoOp]
     ELSE [s EXCEPT !.op = NoOp]

\* ------------------------------ the per-group expenseCache (part_002): state
\* Of an expense the id and x_studio_expensegroup are kept; the balances
\* field, the partner names and the time stamps are left out, and whether a
\* stored cache has gone stale is an input of loadFromStorage.
Groups == 1..NumGroups

\* part_002 lines 50-58
GroupNoMeta ==
  [lastRecordId |-> 0, recordCount |-> 0, isStale |-> TRUE, selectedGroupId |-> Null]

\* part_002 lines 142-153
groupInitialState ==
  [expenses |-> <<>>, loading |-> FALSE, syncing |-> FALSE, error |-> "",
   meta |-> GroupNoMeta, selectedGroupId |-> Null]

\* the two localStorage keys of a group, absent
NoGroupStorage == [present |-> FALSE, expenses |-> <<>>, meta |-> GroupNoMeta]

\* the locals of one activation of sync; after is what its caller does when
\* it returns, held the ids the server held for the selected group when the
\* last query of the activation was answered (a history field)
IdleGroupSync ==
  [pc |-> "idle", force |-> FALSE, current |-> groupInitialState, fetched |-> <<>>,
   after |-> "none", held |-> {}]

\* the locals of a setGroupFilter call that waits for resolvePartnerNames
NoSet == [pc |-> "idle", groupId |-> Null, cachedState |-> <<>>]

\* the store as createExpenseCacheStore leaves it, nothing stored, an empty
\* server (the list of its records, by id); sets and syncs count the calls of setGroupFilter and of sync
NoGroupCache ==
  [state |-> groupInitialState,
   storage |-> [g \in Groups |-> NoGroupStorage],
   server |-> <<>>,
   sync |-> [p \in Tasks |-> IdleGroupSync],
   set |-> NoSet, sets |-> 0, syncs |-> 0]

\* ------------------------------------------------------------- state
VARIABLES
  online,          \* navigator.onLine
  now,             \* Date.now()
  queue,           \* object store sync_queue (keyPath id, autoIncrement)
  nextQueueId,     \* the key generator of sync_queue
  expenses,        \* object store expenses (keyPath id)
  nextLocalId,     \* how many local keys createExpense has generated
  lastExpenseSync, \* meta('lastExpenseSync')
  remote,          \* the expense records the server holds
  nextRemoteId,    \* the id the server gives to the next created record
  state,           \* the value of the offlineExpenseCache store
  syncStatus,      \* the value of syncQueue.js's syncStatus store
  task,            \* the activations in flight, one per slot
  started,         \* how many activations have been started
  attempts,        \* per queue id, the remote calls issued for it so far
  localStorage,    \* lib/stores/expenseCache.js: the two localStorage keys
  cacheState,      \* lib/stores/expenseCache.js: the value of the store
  cacheTask,       \* lib/stores/expenseCache.js: the sync cycles in flight
  calc,            \* an expense list and what the calculators return for it
  service,         \* services/syncService.js and db/index.js: the Dexie variant
  groupCache       \* the per-group expenseCache store, its localStorage and server

vars == <<online, now, queue, nextQueueId, expenses, nextLocalId, lastExpenseSync,
          remote, nextRemoteId, state, syncStatus, task, started, attempts,
          localStorage, cacheState, cacheTask, calc, service, groupCache>>

NoResult == [success |-> FALSE, remoteId |-> Null]

\* the locals of an activation; a slot that runs nothing holds IdleTask
IdleTask ==
  [kind |-> "idle", pc |-> "idle", ret |-> "end", after |-> "none", force |-> FALSE,
   pending |-> <<>>, items |-> <<>>, idx |-> 0, result |-> NoResult,
   processed |-> 0, failed |-> 0, cached |-> <<>>, merged |-> <<>>,
   id |-> Null, values |-> NoData, expense |-> NoData,
   atStart |-> {}, drained |-> {}, user |-> FALSE, outcome |-> "none"]

\* expenseUtils.js lines 187-196
initialState ==
  [expenses |-> <<>>, loading |-> FALSE, syncing |-> FALSE, error |-> "",
   balances |-> EmptyStore, lastSync |-> 0, isStale |-> TRUE]

\* syncQueue.js lines 30-35; pendingCount and failedCount, the two counters
\* updateSyncStatus refreshes for display, are left out
initialStatus == [isSyncing |-> FALSE, lastError |-> ""]

World ==
  [online |-> online, now |-> now, queue |-> queue, nextQueueId |-> nextQueueId,
   expenses |-> expenses, nextLocalId |-> nextLocalId,
   lastExpenseSync |-> lastExpenseSync, remote |-> remote,
   nextRemoteId |-> nextRemoteId, state |-> state, syncStatus |-> syncStatus,
   task |-> task, started |-> started, attempts |-> attempts,
   localStorage |-> localStorage, cacheState |-> cacheState, cacheTask |-> cacheTask,
   calc |-> calc, service |-> service, groupCache |-> groupCache]

Becomes(w) ==
  /\ online' = w.online
  /\ now' = w.now
  /\ queue' = w.queue
  /\ nextQueueId' = w.nextQueueId
  /\ expenses' = w.expenses
  /\ nextLocalId' = w.nextLocalId
  /\ lastExpenseSync' = w.lastExpenseSync
  /\ remote' = w.remote
  /\ nextRemoteId' = w.nextRemoteId
  /\ state' = w.state
  /\ syncStatus' = w.syncStatus
  /\ task' = w.task
  /\ started' = w.started
  /\ attempts' = w.attempts
  /\ localStorage' = w.localStorage
  /\ cacheState' = w.cacheState
  /\ cacheTask' = w.cacheTask
  /\ calc' = w.calc
  /\ service' = w.service
  /\ groupCache' = w.groupCache

\* Date.now(): the clock has moved since it was last read
Times(w) == {Min(w.now + 1, MaxTime)}

\* the activation of slot p ends; its promise is fulfilled or rejected
Settle(w, p, outcome) == [w EXCEPT !.task[p] = [IdleTask EXCEPT !.outcome = outcome]]

\* ------------------------------------------------- the remote (Odoo) side
\* search_read renders a many2one as [id, name] and a many2many as ids
ReadFormat(record) == [record EXCEPT !.x_studio_who_paid = Pair(@[2])]

RECURSIVE SearchFrom(_, _, _)
SearchFrom(server, id, minId) ==
  IF id > MaxRemoteId THEN <<>>
  ELSE IF id \in DOMAIN server /\ id > minId
       THEN <<ReadFormat(server[id])>> \o SearchFrom(server, id + 1, minId)
       ELSE SearchFrom(server, id + 1, minId)

\* odooClient.searchExpenses([['id', '>', minId]], fields); minId = 0 for []
searchExpenses(server, minId) == SearchFrom(server, 1, minId)

\* which remote call processQueueItem makes for an item
RemoteCall(item) ==
  IF item.operation = "create" /\ item.model = "expense" THEN "create"
  ELSE IF item.operation = "update" /\ item.model = "expense" /\ item.remoteId # Null
       THEN "update"
  ELSE IF item.operation = "delete" /\ item.model = "expense" /\ item.remoteId # Null
       THEN "delete"
  ELSE "none"

\* whether the server can answer the call with success
RemoteAccepts(w, item) ==
  /\ w.online
  /\ RemoteCall(item) = "create" => w.nextRemoteId <= MaxRemoteId
  /\ RemoteCall(item) = "update" => item.remoteId \in DOMAIN w.remote

\* the server after it has carried out the call
RemoteApply(w, item) ==
  IF RemoteCall(item) = "create"
  THEN [w EXCEPT !.remote = put(@, Spread([id |-> w.nextRemoteId], item.data)),
                 !.nextRemoteId = @ + 1]
  ELSE IF RemoteCall(item) = "update"
  THEN [w EXCEPT !.remote = put(@, Spread(@[item.remoteId], item.data))]
  ELSE IF RemoteCall(item) = "delete"
  THEN [w EXCEPT !.remote = remove(@, item.remoteId)]
  ELSE w

\* --------------------------------------- syncQueue.js: processSyncQueue
\* Each operator below is the code one activation runs between two awaits,
\* as a function from the world before to the world after.

PendingOrFailed(q) == {i \in DOMAIN q : q[i].status \in {"pending", "failed"}}

\* lines 146-148 and line 71: the run starts online and issues the first read
\* of getPendingItems
psqBegin(w, p, ret) ==
  [w EXCEPT !.syncStatus = [@ EXCEPT !.isSyncing = TRUE, !.lastError = ""],
            !.task[p] = [@ EXCEPT !.pc = "getPendingItems", !.ret = ret,
                                  !.pending = getByIndex(w.queue, "pending"),
                                  !.items = <<>>, !.idx = 0,
                                  !.processed = 0, !.failed = 0,
                                  !.atStart = PendingOrFailed(w.queue),
                                  !.drained = {}]]

\* lines 72-73: the second read of getPendingItems, and the sort
psqReadFailed(w, p) ==
  [w EXCEPT !.task[p] = [@ EXCEPT !.pc = "loop",
                                  !.items = getPendingItems(w.task[p].pending,
                                                            getByIndex(w.queue, "failed")),
                                  !.pending = <<>>, !.idx = 1]]

\* lines 95-133 and 156-160, 183-198: the remote call has answered
psqResponse(w, p, ok) ==
  LET tk == w.task[p]
      item == tk.items[tk.idx]
      w1 == IF RemoteCall(item) # "none"
            THEN [w EXCEPT !.attempts[item.id] = Min(@ + 1, MaxRetries + 1)]
            ELSE w
  IN IF ok
     THEN LET remoteId == IF RemoteCall(item) = "create" THEN w.nextRemoteId
                          ELSE item.remoteId
          IN [RemoteApply(w1, item) EXCEPT
                !.queue = remove(@, item.id),
                !.task[p] = [@ EXCEPT !.pc = "afterSuccess",
                                      !.result = [success |-> TRUE, remoteId |-> remoteId]]]
     ELSE LET updatedItem == [item EXCEPT !.status = "failed", !.error = "Network error",
                                          !.retryCount = @ + 1]
          IN [w1 EXCEPT
                !.queue = IF updatedItem.retryCount >= MaxRetries
                          THEN remove(@, item.id) ELSE put(@, updatedItem),
                !.task[p] = [@ EXCEPT !.pc = "afterFailure", !.result = NoResult]]

\* ------------------------------------------- offlineExpenseCache: sync
\* a sync() that starts its cycle whatever navigator.onLine says
syncWithoutOnlineCheck(w, p, forceFullRefresh) ==
  psqBegin([w EXCEPT !.state = [@ EXCEPT !.syncing = TRUE, !.error = ""],
                     !.task[p].kind = "sync",
                     !.task[p].force = forceFullRefresh], p, "sync")

\* lines 355-365: sync() up to the first await inside processSyncQueue, whose
\* own online check (line 141) passes in the same instant
sync(w, p, forceFullRefresh) ==
  IF ~w.online THEN Settle(w, p, "fulfilled")
  ELSE psqBegin([w EXCEPT !.state = [@ EXCEPT !.syncing = TRUE, !.error = ""],
                          !.task[p].kind = "sync",
                          !.task[p].force = forceFullRefresh], p, "sync")

\* the continuation of whoever called processSyncQueue; the locals of the run
\* are dead from here on
afterDrain(w, p) ==
  LET tk == w.task[p]
      w1 == [w EXCEPT !.task[p] = [@ EXCEPT !.items = <<>>, !.idx = 0, !.result = NoResult,
                                            !.processed = 0, !.failed = 0,
                                            !.atStart = {}, !.drained = {}]]
  IN IF tk.ret = "sync"
     THEN \* lines 368-369, or line 392 when nothing was processed
          [w1 EXCEPT !.task[p] = [@ EXCEPT !.pc = IF tk.processed > 0 THEN "reload" ELSE "search",
                                           !.cached = loadFromDB(w.expenses)]]
     ELSE IF tk.ret = "then_sync"
     THEN \* processSyncQueue().then(() => sync()), lines 565 and 606
          sync(w1, p, FALSE)
     ELSE Settle(w1, p, "fulfilled")

\* lines 152-154: mark the next item; or, the list exhausted, lines 205-208:
\* the run returns to its caller
psqLoop(w, p) ==
  LET tk == w.task[p] IN
  IF tk.idx <= Len(tk.items)
  THEN [w EXCEPT !.queue = put(@, [tk.items[tk.idx] EXCEPT !.status = "syncing"]),
                 !.task[p].pc = "processQueueItem"]
  ELSE afterDrain([w EXCEPT !.syncStatus.isSyncing = FALSE], p)

\* lines 161-182, then the next iteration
psqAfterSuccess(w, p) ==
  LET tk == w.task[p]
      item == tk.items[tk.idx]
      w1 == [w EXCEPT !.task[p].processed = @ + 1]
  IN IF item.operation = "create" /\ tk.result.remoteId # Null /\ item.localId # Null
     THEN [w1 EXCEPT !.expenses = remove(@, item.localId),
                     !.task[p].pc = "afterCleanup",
                     !.task[p].drained = @ \cup {<<item.localId, tk.result.remoteId>>}]
     ELSE IF item.operation = "delete" /\ item.remoteId # Null
     THEN [w1 EXCEPT !.expenses = remove(@, item.remoteId),
                     !.task[p].pc = "afterCleanup"]
     ELSE psqLoop([w1 EXCEPT !.task[p].idx = @ + 1], p)

psqAfterCleanup(w, p) == psqLoop([w EXCEPT !.task[p].idx = @ + 1], p)

\* lines 200-201, then the next iteration
psqAfterFailure(w, p) ==
  psqLoop([w EXCEPT !.task[p].failed = @ + 1,
                    !.task[p].idx = @ + 1,
                    !.syncStatus.lastError = "Network error"], p)

\* lines 139-148
processSyncQueue(w, p, ret) ==
  IF ~w.online
  THEN afterDrain([w EXCEPT !.task[p] = [@ EXCEPT !.ret = ret, !.processed = 0, !.failed = 0]], p)
  ELSE psqBegin(w, p, ret)

\* lines 370-378 and 392
syncReload(w, p) ==
  LET expensesWithNames == resolvePartnerNames(w.task[p].cached) IN
  [w EXCEPT !.state = [@ EXCEPT !.expenses = expensesWithNames,
                                !.balances = calculateBalances(expensesWithNames)],
            !.task[p] = [@ EXCEPT !.pc = "search", !.cached = loadFromDB(w.expenses)]]

MaxOf(S) == CHOOSE x \in S : \A y \in S : y <= x

\* a catch block that logs and rethrows
syncCatchRethrows(w, p) ==
  Settle([w EXCEPT !.state = [@ EXCEPT !.syncing = FALSE, !.error = "Network error"]],
         p, "rejected")

\* lines 447-454
syncCatch(w, p) ==
  Settle([w EXCEPT !.state = [@ EXCEPT !.syncing = FALSE, !.error = "Network error"]],
         p, "fulfilled")

\* a merge that stores the local records it keeps under the next lower key
mergeCopiesLocal(forceFullRefresh, cachedExpenses, syncedExpenses) ==
  LET localExpenses == SelectSeq(cachedExpenses, LAMBDA e : IsLocalId(e.id))
  IN syncedExpenses \o [i \in DOMAIN localExpenses |->
                          [localExpenses[i] EXCEPT !.id = @ - 1]]

\* a merge that marks every record it writes as synced
mergeMarksAllSynced(forceFullRefresh, cachedExpenses, syncedExpenses) ==
  LET Marked(s) == [i \in DOMAIN s |-> Spread(s[i], [syncStatus |-> "synced"])]
  IN IF forceFullRefresh
     THEN syncedExpenses \o Marked(SelectSeq(cachedExpenses, LAMBDA e : IsLocalId(e.id)))
     ELSE LET existingIds == {cachedExpenses[i].id : i \in DOMAIN cachedExpenses}
          IN Marked(cachedExpenses)
               \o SelectSeq(syncedExpenses, LAMBDA e : e.id \notin existingIds)

\* lines 417-427
mergeExpenses(forceFullRefresh, cachedExpenses, syncedExpenses) ==
  IF forceFullRefresh
  THEN syncedExpenses \o SelectSeq(cachedExpenses, LAMBDA e : IsLocalId(e.id))
  ELSE LET existingIds == {cachedExpenses[i].id : i \in DOMAIN cachedExpenses}
       IN cachedExpenses \o SelectSeq(syncedExpenses, LAMBDA e : e.id \notin existingIds)

\* a pull that takes a failed query for an empty result
syncResponseSwallows(w, p, ok) ==
  LET tk == w.task[p]
      fetchedExpenses == IF ok THEN searchExpenses(w.remote, 0) ELSE <<>>
      syncedExpenses == [i \in DOMAIN fetchedExpenses |->
                           Spread(fetchedExpenses[i], [syncStatus |-> "synced"])]
      mergedExpenses == mergeExpenses(tk.force, tk.cached, syncedExpenses)
  IN [w EXCEPT !.expenses = putMany(@, mergedExpenses),
               !.task[p] = [@ EXCEPT !.pc = "saved", !.merged = mergedExpenses,
                                     !.cached = <<>>]]

\* lines 396-430: searchExpenses has answered
syncResponse(w, p, ok) ==
  LET tk == w.task[p]
      remoteIds == {tk.cached[i].id : i \in {j \in DOMAIN tk.cached : IsRemoteId(tk.cached[j].id)}}
      minId == IF ~tk.force /\ Len(tk.cached) > 0 /\ remoteIds # {}
               THEN MaxOf(remoteIds) ELSE 0
      fetchedExpenses == searchExpenses(w.remote, minId)
      syncedExpenses == [i \in DOMAIN fetchedExpenses |->
                           Spread(fetchedExpenses[i], [syncStatus |-> "synced"])]
      mergedExpenses == mergeExpenses(tk.force, tk.cached, syncedExpenses)
  IN IF ok
     THEN [w EXCEPT !.expenses = putMany(@, mergedExpenses),
                    !.task[p] = [@ EXCEPT !.pc = "saved", !.merged = mergedExpenses,
                                          !.cached = <<>>]]
     ELSE syncCatch(w, p)

\* line 431
syncMeta(w, p, t) ==
  [w EXCEPT !.now = t, !.lastExpenseSync = t, !.task[p].pc = "publish"]

\* a publication that leaves the staleness flag as it was
syncPublishKeepsStale(w, p, t) ==
  LET expensesWithNames == resolvePartnerNames(w.task[p].merged) IN
  Settle([w EXCEPT !.now = t,
                   !.state = [@ EXCEPT !.expenses = expensesWithNames,
                                       !.balances = calculateBalances(expensesWithNames),
                                       !.syncing = FALSE, !.lastSync = t, !.error = ""]],
         p, "fulfilled")

\* lines 434-445
syncPublish(w, p, t) ==
  LET expensesWithNames == resolvePartnerNames(w.task[p].merged) IN
  Settle([w EXCEPT !.now = t,
                   !.state = [@ EXCEPT !.expenses = expensesWithNames,
                                       !.balances = calculateBalances(expensesWithNames),
                                       !.syncing = FALSE, !.lastSync = t,
                                       !.isStale = FALSE, !.error = ""]],
         p, "fulfilled")

\* --------------------------------------------- syncQueue.js: retryFailedItems
\* line 226
retryFailedItems(w, p) ==
  [w EXCEPT !.task[p] = [IdleTask EXCEPT !.kind = "retryFailedItems", !.pc = "retryLoop",
                                         !.items = getByIndex(w.queue, "failed"),
                                         !.idx = 1]]

\* lines 227-231
retryLoop(w, p) ==
  LET tk == w.task[p] IN
  IF tk.idx <= Len(tk.items)
  THEN [w EXCEPT !.queue = put(@, [tk.items[tk.idx] EXCEPT !.status = "pending", !.error = ""]),
                 !.task[p].idx = @ + 1]
  ELSE processSyncQueue([w EXCEPT !.task[p] = [IdleTask EXCEPT !.kind = "processSyncQueue"]],
                        p, "end")

\* ------------------- offlineExpenseCache: createExpense, updateExpense, deleteExpense
\* lines 519-547
createExpense(w, p, fields, t) ==
  LET localId == 0 - w.nextLocalId
      newExpense == Spread(Spread([id |-> localId], fields),
                           [syncStatus |-> "pending", localTimestamp |-> t])
  IN [w EXCEPT !.now = t,
               !.nextLocalId = @ + 1,
               !.expenses = put(@, ResolveExpense(newExpense)),
               !.task[p] = [IdleTask EXCEPT !.kind = "createExpense", !.pc = "afterWrite",
                                            !.user = TRUE,
                                            !.id = localId, !.values = fields]]

\* lines 573-574
updateExpense(w, p, id, values) ==
  [w EXCEPT !.task[p] = [IdleTask EXCEPT !.kind = "updateExpense", !.pc = "found",
                                         !.user = TRUE,
                                         !.id = id, !.values = values,
                                         !.expense = IF id \in DOMAIN w.expenses
                                                     THEN w.expenses[id] ELSE NoData]]

\* lines 576-586
updatePut(w, p) ==
  LET tk == w.task[p] IN
  IF tk.expense = NoData THEN Settle(w, p, "rejected")
  ELSE [w EXCEPT !.expenses = put(@, Spread(Spread(tk.expense, tk.values),
                                            [syncStatus |-> "pending"])),
                 !.task[p] = [@ EXCEPT !.pc = "afterWrite", !.expense = NoData]]

\* line 612
deleteExpense(w, p, id) ==
  [w EXCEPT !.expenses = remove(@, id),
            !.task[p] = [IdleTask EXCEPT !.kind = "deleteExpense", !.pc = "afterWrite",
                                         !.user = TRUE,
                                         !.id = id]]

\* queueOperation, lines 48-61; the key line 54 generates when localId is
\* null is never read, and stays null
queueOperation(w, p, operation, data, localId, remoteId, t) ==
  [w EXCEPT !.now = t,
            !.queue = put(@, NewItem(w.nextQueueId, operation, data, localId, remoteId, t)),
            !.nextQueueId = @ + 1,
            !.task[p].pc = "queued"]

\* lines 553, 594, 620
reload(w, p) ==
  [w EXCEPT !.task[p] = [@ EXCEPT !.pc = "publishMutation",
                                  !.cached = loadFromDB(w.expenses)]]

\* a continuation that queues the operation whatever kind of key the id is
afterWriteQueuesAnyKey(w, p, t) ==
  LET tk == w.task[p] IN
  IF tk.kind = "createExpense"
  THEN queueOperation(w, p, "create", tk.values, tk.id, Null, t)
  ELSE IF tk.kind = "updateExpense"
  THEN queueOperation(w, p, "update", tk.values, Null, tk.id, t)
  ELSE queueOperation(w, p, "delete", EmptyStore, Null, tk.id, t)

\* lines 550, 589-594, 615-620: the record is written; queue the operation,
\* or go on to reload when the id is a local key
afterWrite(w, p, t) ==
  LET tk == w.task[p] IN
  IF tk.kind = "createExpense"
  THEN queueOperation(w, p, "create", tk.values, tk.id, Null, t)
  ELSE IF IsRemoteId(tk.id)
  THEN IF tk.kind = "updateExpense"
       THEN queueOperation(w, p, "update", tk.values, Null, tk.id, t)
       ELSE queueOperation(w, p, "delete", EmptyStore, Null, tk.id, t)
  ELSE reload(w, p)

\* a publication that sets the list and leaves the balances as they were
publishMutationKeepsBalances(w, p) ==
  LET tk == w.task[p]
      expensesWithNames == resolvePartnerNames(tk.cached)
      w1 == [w EXCEPT !.state = [@ EXCEPT !.expenses = expensesWithNames],
                      !.task[p] = [IdleTask EXCEPT !.kind = "processSyncQueue",
                                                   !.user = TRUE]]
  IN IF ~w.online THEN Settle(w1, p, "fulfilled")
     ELSE processSyncQueue(w1, p, IF tk.kind = "deleteExpense" THEN "end" ELSE "then_sync")

\* lines 554-566, 595-607, 621-633
publishMutation(w, p) ==
  LET tk == w.task[p]
      expensesWithNames == resolvePartnerNames(tk.cached)
      w1 == [w EXCEPT !.state = [@ EXCEPT !.expenses = expensesWithNames,
                                          !.balances = calculateBalances(expensesWithNames)],
                      !.task[p] = [IdleTask EXCEPT !.kind = "processSyncQueue",
                                                   !.user = TRUE]]
  IN IF ~w.online THEN Settle(w1, p, "fulfilled")
     ELSE processSyncQueue(w1, p, IF tk.kind = "deleteExpense" THEN "end" ELSE "then_sync")

\* ------------------------------------------------------------ inputs
\* what the form passes to createExpense: bare partner ids, an amount that
\* splits evenly, every partner taking part
Fields(payer) ==
  [x_studio_who_paid |-> Raw(payer),
   x_studio_value |-> 2 * NumPartners,
   x_studio_participants |-> [i \in 1..NumPartners |-> Raw(i)]]

Values(payer) == [x_studio_who_paid |-> Raw(payer)]

\* the ids the user can name: the records shown and the records stored
KnownIds == DOMAIN expenses \cup {state.expenses[i].id : i \in DOMAIN state.expenses}

Enqueuing == {q \in Tasks : task[q].pc \in {"found", "afterWrite"}}

QueueRoom == nextQueueId + Cardinality(Enqueuing) <= MaxQueueId

\* a new activation takes the first free slot
Idle(p) ==
  /\ task[p].kind = "idle"
  /\ \A q \in Tasks : q < p => task[q].kind # "idle"
  /\ \A q \in Tasks : ~task[q].user
  /\ started < MaxStarts

\* an operation of the user starts when nothing else is in flight
Alone(p) == Idle(p) /\ \A q \in Tasks : task[q].kind = "idle"

Started(w) == [w EXCEPT !.started = @ + 1]

\* ------------------------------------------------------------- actions
\* What an earlier session of the app has left in IndexedDB and on the server:
\* a record pulled from the server and then edited, an expense created offline,
\* and the two operations queued for them, the create one failure short of the
\* retry ceiling; the server still holds the record, or another client has
\* deleted it.
ServerRecord == Spread([id |-> 1], Fields(1))

CachedRecord == Spread(ReadFormat(ServerRecord), [syncStatus |-> "synced"])

EditedRecord == Spread(Spread(CachedRecord, Values(2)), [syncStatus |-> "pending"])

LocalRecord ==
  ResolveExpense(Spread(Spread([id |-> 0 - 1], Fields(1)),
                        [syncStatus |-> "pending", localTimestamp |-> 0]))

QueuedCreate ==
  [NewItem(1, "create", Fields(1), 0 - 1, Null, 0) EXCEPT
     !.retryCount = MaxRetries - 1, !.status = "failed", !.error = "Network error"]

QueuedUpdate == NewItem(2, "update", Values(2), Null, 1, 1)

Init ==
  /\ online \in BOOLEAN
  /\ now = 1
  /\ remote \in {put(EmptyStore, ServerRecord), EmptyStore}
  /\ nextRemoteId = 2
  /\ expenses = putMany(EmptyStore, <<EditedRecord, LocalRecord>>)
  /\ queue = putMany(EmptyStore, <<QueuedCreate, QueuedUpdate>>)
  /\ attempts = [i \in 1..MaxQueueId |-> IF i = 1 THEN QueuedCreate.retryCount ELSE 0]
  /\ nextQueueId = 3
  /\ nextLocalId = 2
  /\ lastExpenseSync = 0
  /\ state = initialState
  /\ syncStatus = initialStatus
  /\ task = [p \in Tasks |-> IdleTask]
  /\ started = 0
  /\ localStorage = NoStorage
  /\ cacheState = cacheInitialState(NoStorage)
  /\ cacheTask = [p \in Tasks |-> IdleCycle]
  /\ calc = NoCalc
  /\ service = NoService
  /\ groupCache = NoGroupCache

\* the periodic timer, the 'online' listener, forceRefresh or a direct call
StartSync(p) ==
  /\ Idle(p)
  /\ \E forceFullRefresh \in BOOLEAN : Becomes(sync(Started(World), p, forceFullRefresh))

StartProcessSyncQueue(p) ==
  /\ Idle(p)
  /\ Becomes(processSyncQueue([Started(World) EXCEPT
                                 !.task[p] = [IdleTask EXCEPT !.kind = "processSyncQueue"]],
                              p, "end"))

StartRetryFailedItems(p) ==
  /\ Idle(p)
  /\ Becomes(retryFailedItems(Started(World), p))

StartCreateExpense(p) ==
  /\ Alone(p)
  /\ nextLocalId <= MaxLocal
  /\ QueueRoom
  /\ \E payer \in Partners, t \in Times(World) :
       Becomes(createExpense(Started(World), p, Fields(payer), t))

StartUpdateExpense(p) ==
  /\ Alone(p)
  /\ QueueRoom
  /\ \E id \in KnownIds, payer \in Partners :
       Becomes(updateExpense(Started(World), p, id, Values(payer)))

StartDeleteExpense(p) ==
  /\ Alone(p)
  /\ QueueRoom
  /\ \E id \in KnownIds : Becomes(deleteExpense(Started(World), p, id))

GetPendingItems(p) ==
  /\ task[p].pc = "getPendingItems"
  /\ Becomes(psqReadFailed(World, p))

Loop(p) ==
  /\ task[p].pc = "loop"
  /\ Becomes(psqLoop(World, p))

ProcessQueueItem(p) ==
  /\ task[p].pc = "processQueueItem"
  /\ LET item == task[p].items[task[p].idx] IN
     \E ok \in BOOLEAN :
       /\ ok => RemoteCall(item) = "none" \/ RemoteAccepts(World, item)
       /\ ~ok => RemoteCall(item) # "none"
       /\ Becomes(psqResponse(World, p, ok))

AfterSuccess(p) ==
  /\ task[p].pc = "afterSuccess"
  /\ Becomes(psqAfterSuccess(World, p))

AfterCleanup(p) ==
  /\ task[p].pc = "afterCleanup"
  /\ Becomes(psqAfterCleanup(World, p))

AfterFailure(p) ==
  /\ task[p].pc = "afterFailure"
  /\ Becomes(psqAfterFailure(World, p))

RetryLoop(p) ==
  /\ task[p].pc = "retryLoop"
  /\ Becomes(retryLoop(World, p))

SyncReload(p) ==
  /\ task[p].pc = "reload"
  /\ Becomes(syncReload(World, p))

SyncSearch(p) ==
  /\ task[p].pc = "search"
  /\ \E ok \in BOOLEAN :
       /\ ok => online
       /\ Becomes(syncResponse(World, p, ok))

SyncSaved(p) ==
  /\ task[p].pc = "saved"
  /\ \E t \in Times(World) : Becomes(syncMeta(World, p, t))

SyncPublish(p) ==
  /\ task[p].pc = "publish"
  /\ \E t \in Times(World) : Becomes(syncPublish(World, p, t))

UpdateFound(p) ==
  /\ task[p].pc = "found"
  /\ Becomes(updatePut(World, p))

AfterWrite(p) ==
  /\ task[p].pc = "afterWrite"
  /\ \E t \in Times(World) : Becomes(afterWrite(World, p, t))

Queued(p) ==
  /\ task[p].pc = "queued"
  /\ Becomes(reload(World, p))

PublishMutation(p) ==
  /\ task[p].pc = "publishMutation"
  /\ Becomes(publishMutation(World, p))

\* the environment: connectivity
GoOnline ==
  /\ ~online
  /\ Becomes([World EXCEPT !.online = TRUE])

GoOffline ==
  /\ online
  /\ Becomes([World EXCEPT !.online = FALSE])

Start(p) ==
  \/ StartSync(p)
  \/ StartProcessSyncQueue(p)
  \/ StartRetryFailedItems(p)
  \/ StartCreateExpense(p)
  \/ StartUpdateExpense(p)
  \/ StartDeleteExpense(p)

Step(p) ==
  \/ GetPendingItems(p)
  \/ Loop(p)
  \/ ProcessQueueItem(p)
  \/ AfterSuccess(p)
  \/ AfterCleanup(p)
  \/ AfterFailure(p)
  \/ RetryLoop(p)
  \/ SyncReload(p)
  \/ SyncSearch(p)
  \/ SyncSaved(p)
  \/ SyncPublish(p)
  \/ UpdateFound(p)
  \/ AfterWrite(p)
  \/ Queued(p)
  \/ PublishMutation(p)

Environment == GoOnline \/ GoOffline

Next == (\E p \in Tasks : Start(p) \/ Step(p)) \/ Environment

Spec == Init /\ [][Next]_vars

\* ------------------------------------------------- the page is reloaded
\* Closing or reloading the page while a remote call is awaited: the
\* activations in flight are lost and the in-memory stores start afresh;
\* IndexedDB and the server keep what they hold.
AppRestart ==
  /\ \E p \in Tasks : task[p].pc = "processQueueItem"
  /\ Becomes([World EXCEPT !.task = [p \in Tasks |-> IdleTask],
                           !.state = initialState,
                           !.syncStatus = initialStatus])

\* the periodic timer (expenseUtils.js lines 490-493): a sync cycle every
\* SYNC_INTERVAL_MS, here with the previous cycle over
Timer(p) ==
  /\ \A q \in Tasks : task[q].kind = "idle"
  /\ p = 1
  /\ Becomes(sync(World, p, FALSE))

Cycle(p) ==
  \/ Timer(p)
  \/ GetPendingItems(p)
  \/ Loop(p)
  \/ ProcessQueueItem(p)
  \/ AfterSuccess(p)
  \/ AfterCleanup(p)
  \/ AfterFailure(p)
  \/ SyncReload(p)
  \/ SyncSearch(p)
  \/ SyncSaved(p)
  \/ SyncPublish(p)

LiveNext == (\E p \in Tasks : Cycle(p)) \/ GoOnline \/ AppRestart

\* Connectivity comes back and stays, the timer keeps firing, every
\* continuation and every response eventually arrives.
LiveSpec ==
  /\ Init
  /\ [][LiveNext]_vars
  /\ WF_vars(GoOnline)
  /\ WF_vars(\E p \in Tasks : Cycle(p))

\* ------------------------- lib/stores/expenseCache.js: the localStorage cache
\* The variant of the cache that keeps the server's records in localStorage and
\* has no offline queue. One operator per stretch of sync between two awaits.

\* lines 117-189: the names are fetched once and kept in partnerMap; when the
\* lookup fails the records come back as they went in
cacheResolvePartnerNames(records, ok) ==
  IF ok THEN resolvePartnerNames(records) ELSE records

\* what sync reads from the store at lines 206-207
Snapshot(w) == [expenses |-> w.cacheState.expenses, meta |-> w.cacheState.meta]

\* lines 193-218 and 235-238: up to the first request
cacheSync(w, p, forceFullRefresh) ==
  [w EXCEPT !.cacheState = [@ EXCEPT !.syncing = TRUE, !.error = ""],
            !.cacheTask[p] =
               [IdleCycle EXCEPT
                  !.pc = IF ~forceFullRefresh /\ w.cacheState.meta.lastRecordId > 0
                         THEN "incremental" ELSE "full",
                  !.force = forceFullRefresh,
                  !.current = Snapshot(w)]]

IdsOf(s) == {s[i].id : i \in DOMAIN s}

\* lines 248-263: both branches keep the cached order, put a fetched record in
\* the place of the cached one with its id and append the new ones
MergeFetched(current, fetched) ==
  [i \in DOMAIN current |->
     IF current[i].id \in IdsOf(fetched)
     THEN fetched[CHOOSE j \in DOMAIN fetched : fetched[j].id = current[i].id]
     ELSE current[i]]
  \o SelectSeq(fetched, LAMBDA e : e.id \notin IdsOf(current))

\* lines 242-270: merge or replace, sort, ask for the names
cacheMerge(w, p, fetchedExpenses) ==
  LET c == w.cacheTask[p]
      mergedExpenses ==
        IF c.force \/ c.current.meta.lastRecordId = 0 THEN fetchedExpenses
        ELSE MergeFetched(c.current.expenses, fetchedExpenses)
  IN [w EXCEPT !.cacheTask[p] = [c EXCEPT !.pc = "resolve",
                                          !.fetched = fetchedExpenses,
                                          !.merged = SortById(mergedExpenses)]]

\* lines 300-307
cacheCatch(w, p) ==
  [w EXCEPT !.cacheState = [@ EXCEPT !.syncing = FALSE, !.error = "Failed to sync data"],
            !.cacheTask[p] = IdleCycle]

\* the request for the whole list is sent (lines 235-238)
cacheFullFetch(w, p) ==
  [w EXCEPT !.cacheTask[p] = [@ EXCEPT !.pc = "full", !.force = TRUE]]

\* a count check that trusts the cache whatever the server's count is
cacheCountIgnoresMismatch(w, p, ok) ==
  IF ok
  THEN cacheMerge([w EXCEPT !.cacheTask[p].totalCount =
                               <<Len(searchExpenses(w.remote, 0))>>], p, <<>>)
  ELSE cacheFullFetch(w, p)

\* lines 223-232: the answer to the count check
cacheCount(w, p, ok) ==
  LET totalCount == searchExpenses(w.remote, 0)
      counted == [w EXCEPT !.cacheTask[p].totalCount = <<Len(totalCount)>>]
  IN IF ~ok THEN cacheFullFetch(w, p)
     ELSE IF Len(totalCount) # Len(w.cacheTask[p].current.expenses)
          THEN cacheFullFetch(counted, p)
          ELSE cacheMerge(counted, p, <<>>)

\* lines 218-232: the answer to the incremental request
cacheIncremental(w, p, ok) ==
  LET fetchedExpenses == searchExpenses(w.remote, w.cacheTask[p].current.meta.lastRecordId)
  IN IF ~ok THEN cacheFullFetch(w, p)
     ELSE IF Len(fetchedExpenses) = 0
          THEN [w EXCEPT !.cacheTask[p] = [@ EXCEPT !.pc = "count"]]
          ELSE cacheMerge(w, p, fetchedExpenses)

\* line 238 and the catch of line 300: the answer to the full request
cacheFull(w, p, ok) ==
  IF ok THEN cacheMerge(w, p, searchExpenses(w.remote, 0)) ELSE cacheCatch(w, p)

\* lines 270-298: the names are in (or not); metadata, storage, store
cachePublish(w, p, ok) ==
  LET expensesWithNames == cacheResolvePartnerNames(w.cacheTask[p].merged, ok)
      lastRecordId == IF Len(expensesWithNames) > 0 THEN MaxOf(IdsOf(expensesWithNames))
                      ELSE 0
      newMeta == [lastSyncTime |-> w.now, lastRecordId |-> lastRecordId,
                  recordCount |-> Len(expensesWithNames)]
  IN [w EXCEPT !.localStorage = saveToStorage(expensesWithNames, newMeta),
               !.cacheState = [@ EXCEPT !.expenses = expensesWithNames,
                                        !.meta = newMeta,
                                        !.balances = calculateBalances(expensesWithNames),
                                        !.syncing = FALSE,
                                        !.error = ""],
               !.cacheTask[p] = IdleCycle]

\* lines 358-362
cacheForceRefresh(w, p) ==
  [cacheSync([w EXCEPT !.localStorage = clearStorage(@)], p, TRUE) EXCEPT
     !.cacheTask[p].stored = w.localStorage]

\* a cycle starts in the first free slot
CacheIdle(p) ==
  /\ cacheTask[p].pc = "idle"
  /\ \A q \in Tasks : q < p => cacheTask[q].pc # "idle"
  /\ started < MaxStarts

\* the 15 s timer of initialize, or a direct call
CacheStartSync(p) ==
  /\ CacheIdle(p)
  /\ \E forceFullRefresh \in BOOLEAN :
        Becomes(cacheSync(Started(World), p, forceFullRefresh))

CacheForceRefresh(p) ==
  /\ CacheIdle(p)
  /\ Becomes(cacheForceRefresh(Started(World), p))

CacheIncremental(p) ==
  /\ cacheTask[p].pc = "incremental"
  /\ \E ok \in BOOLEAN : Becomes(cacheIncremental(World, p, ok))

CacheCount(p) ==
  /\ cacheTask[p].pc = "count"
  /\ \E ok \in BOOLEAN : Becomes(cacheCount(World, p, ok))

CacheFull(p) ==
  /\ cacheTask[p].pc = "full"
  /\ \E ok \in BOOLEAN : Becomes(cacheFull(World, p, ok))

CachePublish(p) ==
  /\ cacheTask[p].pc = "resolve"
  /\ \E ok \in BOOLEAN : Becomes(cachePublish(World, p, ok))

\* other clients of the same Odoo database
ServerCreate ==
  /\ nextRemoteId <= MaxRemoteId
  /\ Becomes([World EXCEPT !.remote = put(@, Spread([id |-> nextRemoteId], Fields(1))),
                           !.nextRemoteId = @ + 1])

ServerDelete ==
  \E id \in DOMAIN remote : Becomes([World EXCEPT !.remote = remove(@, id)])

\* another client changes who paid, once per record
ServerUpdate ==
  \E id \in DOMAIN remote :
     /\ remote[id].x_studio_who_paid # Values(2).x_studio_who_paid
     /\ Becomes([World EXCEPT !.remote = put(@, Spread(@[id], Values(2)))])

\* what an earlier session has left in localStorage: the server's record 1
StoredRecord == ResolveExpense(ReadFormat(ServerRecord))

StoredCache ==
  saveToStorage(<<StoredRecord>>, [lastSyncTime |-> 1, lastRecordId |-> 1, recordCount |-> 1])

\* the offline store and its queue, empty and idle
StoresAtRest ==
  /\ now = 1
  /\ remote = put(EmptyStore, ServerRecord)
  /\ nextRemoteId = 2
  /\ expenses = EmptyStore
  /\ queue = EmptyStore
  /\ attempts = [i \in 1..MaxQueueId |-> 0]
  /\ nextQueueId = 1
  /\ nextLocalId = 1
  /\ lastExpenseSync = 0
  /\ state = initialState
  /\ syncStatus = initialStatus
  /\ task = [p \in Tasks |-> IdleTask]
  /\ started = 0

AtRest == online = TRUE /\ StoresAtRest

CacheInit ==
  /\ AtRest
  /\ localStorage \in {StoredCache, NoStorage}
  /\ cacheState = cacheInitialState(localStorage)
  /\ cacheTask = [p \in Tasks |-> IdleCycle]
  /\ calc = NoCalc
  /\ service = NoService
  /\ groupCache = NoGroupCache

CacheStep(p) ==
  \/ CacheStartSync(p)
  \/ CacheForceRefresh(p)
  \/ CacheIncremental(p)
  \/ CacheCount(p)
  \/ CacheFull(p)
  \/ CachePublish(p)

CacheNext == (\E p \in Tasks : CacheStep(p)) \/ ServerCreate \/ ServerDelete \/ ServerUpdate

CacheSpec == CacheInit /\ [][CacheNext]_vars

\* ----------------------------------- the calculators applied to expense lists
\* a person as the form, a name-resolved record or a raw record names them
Ref(form, person) == IF form = "name" THEN Name(person) ELSE Raw(person)

Amounts == {3 * Cent, 1000 * Cent, 3000 * Cent}

\* who shares an expense: nobody, one or two people (the same one twice
\* included), or everybody
ParticipantLists ==
  {<<>>} \cup {<<a>> : a \in People} \cup {<<a, b>> : a, b \in People}
         \cup {[i \in 1..MaxParticipants |-> i]}

ExpenseOf(form, payer, amount, participants) ==
  [x_studio_who_paid |-> Ref(form, payer),
   x_studio_value |-> amount,
   x_studio_participants |-> [i \in DOMAIN participants |-> Ref(form, participants[i])]]

ExpensesIn(form) ==
  {ExpenseOf(form, payer, amount, participants) :
     payer \in People, amount \in Amounts, participants \in ParticipantLists}

ExpenseLists ==
  UNION {{<<e>> : e \in ExpensesIn(form)} \cup
         {<<e, f>> : e \in ExpensesIn(form), f \in ExpensesIn(form)} : form \in {"name", "id"}}

BalanceInit ==
  /\ AtRest
  /\ localStorage = NoStorage
  /\ cacheState = cacheInitialState(NoStorage)
  /\ cacheTask = [p \in Tasks |-> IdleCycle]
  /\ calc \in {[NoCalc EXCEPT !.expenses = list] : list \in ExpenseLists}
  /\ service = NoService
  /\ groupCache = NoGroupCache

\* expenseUtils.js calculateBalances
CalculateBalances ==
  /\ calc.by = "input"
  /\ Becomes([World EXCEPT !.calc = [@ EXCEPT !.by = "expenseUtils",
                                              !.entries = balanceEntries(calc.expenses)]])

\* part_001 calculateBalances
VueCalculateBalances ==
  /\ calc.by = "input"
  /\ Becomes([World EXCEPT !.calc = [@ EXCEPT !.by = "expenseCalculations",
                                              !.entries = vueCalculateBalances(calc.expenses)]])

CalculateSettlements ==
  /\ calc.by \in {"expenseUtils", "expenseCalculations"}
  /\ ~calc.settled
  /\ Becomes([World EXCEPT !.calc = [@ EXCEPT !.settled = TRUE,
                                              !.settlements = calculateSettlements(calc.entries)]])

BalanceNext == CalculateBalances \/ VueCalculateBalances \/ CalculateSettlements

BalanceSpec == BalanceInit /\ [][BalanceNext]_vars

\* Lists of up to three records some of which do not count: no payer (Odoo
\* gives false for an empty many2one), an amount of zero or below, nobody
\* sharing
MixedExpenses ==
  {[x_studio_who_paid |-> payer,
    x_studio_value |-> amount,
    x_studio_participants |-> participants] :
     payer \in {NoPerson, Name(1), Name(2)},
     amount \in {0 - 1000 * Cent, 0, 1000 * Cent},
     participants \in {<<>>, <<Name(1), Name(2)>>, <<Name(3)>>}}

MixedLists ==
  {<<e>> : e \in MixedExpenses}
    \cup {<<e, f>> : e, f \in MixedExpenses}
    \cup {<<e, f, g>> : e, f, g \in MixedExpenses}

MixedInit ==
  /\ AtRest
  /\ localStorage = NoStorage
  /\ cacheState = cacheInitialState(NoStorage)
  /\ cacheTask = [p \in Tasks |-> IdleCycle]
  /\ calc \in {[NoCalc EXCEPT !.expenses = list] : list \in MixedLists}
  /\ service = NoService
  /\ groupCache = NoGroupCache

MixedSpec == MixedInit /\ [][BalanceNext]_vars

\* ------------------------------------------- the SyncService specification
\* What an earlier session has left in the Dexie database and on the server:
\* a record pulled from the server and then edited, an expense created
\* offline, and the two operations dbOps queued for them.
SvcSynced == [localId |-> 1, id |-> 1, x_studio_value |-> 4, syncStatus |-> "synced"]

SvcEdited == Spread(Spread(SvcSynced, [x_studio_value |-> 6]), [syncStatus |-> "pending"])

SvcLocal == [localId |-> 2, id |-> Null, x_studio_value |-> 4, syncStatus |-> "pending"]

Installed ==
  [NoService EXCEPT
     !.expenses = tablePut(tablePut(EmptyStore, 1, SvcEdited), 2, SvcLocal),
     !.nextLocalId = 3,
     !.syncQueue = tablePut(tablePut(EmptyStore, 1, SvcItem(1, "create", SvcLocal)),
                            2, SvcItem(2, "update", SvcEdited)),
     !.nextItemId = 3,
     !.server = put(EmptyStore, [id |-> 1, x_studio_value |-> 4]),
     !.nextServerId = 2]

\* main.js lines 16-35: the app has started offline, so that startAutoSync
\* has not been called yet, and listens for the 'online' event
ServiceInit ==
  /\ online = FALSE
  /\ StoresAtRest
  /\ localStorage = NoStorage
  /\ cacheState = cacheInitialState(NoStorage)
  /\ cacheTask = [p \in Tasks |-> IdleCycle]
  /\ calc = NoCalc
  /\ service = Installed
  /\ groupCache = NoGroupCache

Serve(s) == Becomes([World EXCEPT !.service = s])

\* useExpenseStore.js line 107 and part_007 line 436: the sync button
SvcSyncNow ==
  /\ service.calls < MaxCalls
  /\ Serve(syncNow(service, online))

\* part_000 lines 28-32
SvcInterval ==
  /\ service.syncInterval
  /\ online /\ ~service.isSyncing
  /\ service.calls < MaxCalls
  /\ Serve(intervalFires(service, online))

\* main.js lines 26-29: the 'online' event
SvcOnline ==
  /\ ~online
  /\ service.calls < MaxCalls
  /\ Becomes([World EXCEPT !.online = TRUE, !.service = startAutoSync(service, TRUE)])

\* main.js lines 31-34: the 'offline' event
SvcOffline ==
  /\ online
  /\ Becomes([World EXCEPT !.online = FALSE, !.service = stopAutoSync(service)])

SvcFetchPartners(c) ==
  /\ service.cycle[c].pc = "fetchPartners"
  /\ \E ok \in BOOLEAN :
       /\ ok => online
       /\ Serve(fetchPartnersResponse(service, c, ok))

SvcSavePartners(c) ==
  /\ service.cycle[c].pc = "savePartners"
  /\ Serve(savePartnersDone(service, c))

SvcFetchExpenseGroups(c) ==
  /\ service.cycle[c].pc = "fetchExpenseGroups"
  /\ \E ok \in BOOLEAN :
       /\ ok => online
       /\ Serve(fetchExpenseGroupsResponse(service, c, ok))

SvcSaveExpenseGroups(c) ==
  /\ service.cycle[c].pc = "saveExpenseGroups"
  /\ Serve(saveExpenseGroupsDone(service, c))

SvcGetPendingSyncItems(c) ==
  /\ service.cycle[c].pc = "getPendingSyncItems"
  /\ Serve(gotPendingSyncItems(service, c))

SvcUpdateSyncItem(c) ==
  /\ service.cycle[c].pc = "updateSyncItem"
  /\ Serve(syncExpenseItem(service, c))

SvcSyncExpenseItem(c) ==
  /\ service.cycle[c].pc = "syncExpenseItem"
  /\ \E ok \in BOOLEAN :
       /\ ok => SvcAccepts(service, service.cycle[c].items[service.cycle[c].idx], online)
       /\ Serve(syncExpenseItemResponse(service, c, ok))

SvcModify(c) ==
  /\ service.cycle[c].pc = "modify"
  /\ Serve(modified(service, c))

SvcDelete(c) ==
  /\ service.cycle[c].pc = "delete"
  /\ Serve(deleted(service, c))

\* what follows the write of status 'error' and the write of status 'failed'
SvcMarked(c) ==
  /\ service.cycle[c].pc \in {"error", "failed"}
  /\ Serve(IF service.cycle[c].pc = "error" THEN markedError(service, c)
           ELSE markedFailed(service, c))

SvcSearchExpenses(c) ==
  /\ service.cycle[c].pc = "searchExpenses"
  /\ \E ok \in BOOLEAN :
       /\ ok => online
       /\ Serve(searchExpensesResponse(service, c, ok))

SvcLocalExpenses(c) ==
  /\ service.cycle[c].pc = "localExpenses"
  /\ Serve(pulled(service, c, now))

SvcSetSetting(c) ==
  /\ service.cycle[c].pc = "setSetting"
  /\ Serve(settingSaved(service, c))

\* the form and the list of useExpenseStore.js: one dbOps call at a time
DbIdle == service.op.pc = "idle" /\ service.ops < MaxOps

DbCreateExpense ==
  /\ DbIdle
  /\ Serve(dbCreateExpense(service, 2))

DbUpdateExpense ==
  /\ DbIdle
  /\ \E localId \in 1..(service.nextLocalId - 1) :
       Serve(dbGet(service, "updateExpense", localId, 8))

DbDeleteExpense ==
  /\ DbIdle
  /\ \E localId \in 1..(service.nextLocalId - 1) :
       Serve(dbGet(service, "deleteExpense", localId, 0))

DbAdded ==
  /\ service.op.pc = "added"
  /\ Serve(dbCreateQueued(service))

DbGot ==
  /\ service.op.pc = "got"
  /\ Serve(dbGot(service))

DbWritten ==
  /\ service.op.pc = "written"
  /\ Serve(dbWritten(service))

SvcStep(c) ==
  \/ SvcFetchPartners(c)
  \/ SvcSavePartners(c)
  \/ SvcFetchExpenseGroups(c)
  \/ SvcSaveExpenseGroups(c)
  \/ SvcGetPendingSyncItems(c)
  \/ SvcUpdateSyncItem(c)
  \/ SvcSyncExpenseItem(c)
  \/ SvcModify(c)
  \/ SvcDelete(c)
  \/ SvcMarked(c)
  \/ SvcSearchExpenses(c)
  \/ SvcLocalExpenses(c)
  \/ SvcSetSetting(c)

ServiceNext ==
  \/ \E c \in Cycles : SvcStep(c)
  \/ SvcInterval
  \/ SvcSyncNow
  \/ SvcOnline
  \/ SvcOffline
  \/ DbCreateExpense
  \/ DbUpdateExpense
  \/ DbDeleteExpense
  \/ DbAdded
  \/ DbGot
  \/ DbWritten

ServiceSpec == ServiceInit /\ [][ServiceNext]_vars

\* A page runs one of the two apps: the one built on the offline cache, in
\* which no SyncService holds anything, or the one built on SyncService.
AppInit == Init \/ ServiceInit

AppNext ==
  \/ service = NoService /\ Next
  \/ service # NoService /\ ServiceNext

AppSpec == AppInit /\ [][AppNext]_vars

\* ------------------------------------------------------------ properties
DrainPcs == {"loop", "processQueueItem", "afterSuccess", "afterCleanup", "afterFailure"}

\* the run of processSyncQueue in slot p returns in this step
DrainReturns(p) == task[p].pc \in DrainPcs /\ task'[p].pc \notin DrainPcs

ItemIds(items) == {items[i].id : i \in DOMAIN items}

Ascending(items) ==
  \A i, j \in DOMAIN items : i < j => items[i].timestamp <= items[j].timestamp

\* the remote query of the pull in slot p fails in this step
QueryFails(p) == task[p].pc = "search" /\ Becomes(syncResponse(World, p, FALSE))

\* C1: when a run of processSyncQueue returns, every create it dispatched with
\* success, for a record stored under local key K and answered with remote id
\* R, has left the expenses store without K and with a record under R whose
\* syncStatus is 'synced'.
C1_DrainReplacesLocalKey ==
  [][\A p \in Tasks : DrainReturns(p) =>
       \A kr \in task[p].drained :
         /\ kr[1] \notin DOMAIN expenses'
         /\ kr[2] \in DOMAIN expenses'
         /\ expenses'[kr[2]].syncStatus = "synced"]_vars

\* C2: whatever processSyncQueue and retryFailedItems calls run, overlapping
\* or not, the remote call of a queue item is attempted at most 5 times.
C2_AtMostFiveAttempts == \A i \in DOMAIN attempts : attempts[i] <= MaxRetries

\* C3: the items a run of processSyncQueue dispatches are exactly the entries
\* that were 'pending' or 'failed' when the run started, in ascending order of
\* enqueue timestamp.
C3_DispatchesStartSnapshotInOrder ==
  \A p \in Tasks :
    task[p].pc \in DrainPcs =>
      /\ ItemIds(task[p].items) = task[p].atStart
      /\ Ascending(task[p].items)

\* C4: with connectivity restored and sync cycles triggered again and again,
\* every queued operation eventually leaves the queue; no entry stays
\* 'syncing' forever.
C4_EveryOperationLeavesQueue ==
  \A i \in 1..MaxQueueId : (i \in DOMAIN queue) ~> (i \notin DOMAIN queue)

\* C5: at most one sync cycle of offlineExpenseCache is in flight at any time.
C5_OneSyncInFlight == Cardinality({p \in Tasks : task[p].kind = "sync"}) <= 1

\* C6: at every moment at most one sync-queue entry has status 'syncing'.
C6_OneEntrySyncing ==
  Cardinality({i \in DOMAIN queue : queue[i].status = "syncing"}) <= 1

\* C7: when sync(true) completes successfully, the expenses store holds no
\* record with a remote id that the full pull did not return.
C7_FullPullDropsStaleRemoteRecords ==
  [][\A p \in Tasks :
       task[p].pc = "publish" /\ task[p].force /\ task'[p].pc = "idle" =>
         \A id \in DOMAIN expenses' :
           IsRemoteId(id) => id \in ItemIds(task[p].merged)]_vars

\* C8: the write of a full pull leaves every record stored under a local key
\* with the same key and the same field values.
C8_FullPullKeepsLocalRecords ==
  [][\A p \in Tasks :
       task[p].pc = "search" /\ task[p].force /\ task'[p].pc = "saved" =>
         \A id \in DOMAIN expenses :
           IsLocalId(id) => id \in DOMAIN expenses' /\ expenses'[id] = expenses[id]]_vars

\* C9: when the remote query of the pull fails, the expenses store, the
\* last-sync timestamp and the published expenses and balances stay as they
\* were, and the published state ends with syncing = false and an error.
C9_FailedPullChangesNothing ==
  [][\A p \in Tasks : QueryFails(p) =>
       /\ expenses' = expenses
       /\ lastExpenseSync' = lastExpenseSync
       /\ state'.expenses = state.expenses
       /\ state'.balances = state.balances
       /\ state'.syncing = FALSE
       /\ state'.error # ""]_vars

\* a pull has failed while expenses were on display
C9_Witness ==
  /\ state.error # ""
  /\ ~state.syncing
  /\ state.expenses # <<>>
  /\ \E p \in Tasks : task[p].kind = "idle" /\ task[p].outcome = "fulfilled"

\* C10: sync() never rejects: whatever remote call fails during the drain or
\* the pull, the activation ends fulfilled.
C10_SyncNeverRejects ==
  [][\A p \in Tasks :
       task[p].kind = "sync" /\ task'[p].kind = "idle" =>
         task'[p].outcome = "fulfilled"]_vars

\* a sync has ended fulfilled after a failed dispatch and a failed pull
C10_Witness ==
  /\ syncStatus.lastError # ""
  /\ state.error # ""
  /\ \E p \in Tasks : task[p].kind = "idle" /\ task[p].outcome = "fulfilled"
  /\ \A p \in Tasks : task[p].kind = "idle"

\* sync() or processSyncQueue() is called in this step, into slot p, with
\* connectivity down
OfflineCall(p) ==
  /\ ~online
  /\ task[p].kind = "idle"
  /\ \/ \E forceFullRefresh \in BOOLEAN :
          Becomes(sync(Started(World), p, forceFullRefresh))
     \/ Becomes(processSyncQueue([Started(World) EXCEPT
                                    !.task[p] = [IdleTask EXCEPT !.kind = "processSyncQueue"]],
                                 p, "end"))

\* C11: with connectivity down, sync() and processSyncQueue() issue no remote
\* call and leave the sync queue, the expenses store, the metadata and the
\* published state as they were.
C11_OfflineCallsAreNoOps ==
  [][\A p \in Tasks : OfflineCall(p) =>
       /\ task'[p].kind = "idle"
       /\ UNCHANGED <<queue, expenses, lastExpenseSync, state, syncStatus,
                      remote, nextRemoteId, attempts>>]_vars

\* one call has been made offline and has returned; nothing has moved
C11_Witness ==
  /\ ~online
  /\ started = 1
  /\ \A p \in Tasks : task[p].kind = "idle"
  /\ \E p \in Tasks : task[p].outcome = "fulfilled"
  /\ state = initialState
  /\ syncStatus = initialStatus
  /\ queue = putMany(EmptyStore, <<QueuedCreate, QueuedUpdate>>)
  /\ attempts[1] = QueuedCreate.retryCount

\* the remote call of the item the run in slot p is dispatching fails in
\* this step
DispatchFails(p) ==
  task[p].pc = "processQueueItem" /\ Becomes(psqResponse(World, p, FALSE))

\* C12: when the remote call of a queue item fails, the item is kept with
\* status 'failed', an error text and its retryCount increased by exactly 1,
\* or is removed when that reaches 5; the retryCount of no other item
\* changes, and the run goes on to its later items.
C12_FailureCountsOnce ==
  [][\A p \in Tasks : DispatchFails(p) =>
       LET item == task[p].items[task[p].idx]
           before == IF item.id \in DOMAIN queue THEN queue[item.id].retryCount
                     ELSE item.retryCount
       IN /\ IF before + 1 >= MaxRetries
             THEN item.id \notin DOMAIN queue'
             ELSE /\ item.id \in DOMAIN queue'
                  /\ queue'[item.id].status = "failed"
                  /\ queue'[item.id].error # ""
                  /\ queue'[item.id].retryCount = before + 1
          /\ \A i \in DOMAIN queue \ {item.id} :
               i \in DOMAIN queue' /\ queue'[i].retryCount = queue[i].retryCount
          /\ task'[p].pc = "afterFailure"
          /\ task'[p].items = task[p].items]_vars

\* the count check of slot p is answered and finds another number of records
\* on the server than the cycle read from the store
CountMismatch(p) ==
  /\ cacheTask[p].pc = "count"
  /\ Len(searchExpenses(remote, 0)) # Len(cacheTask[p].current.expenses)
  /\ Becomes(cacheCount(World, p, TRUE))

\* the cycle of slot p pulls the whole list after a count mismatch
PullsAfterMismatch(p) ==
  /\ cacheTask[p].totalCount # <<>>
  /\ cacheTask[p].totalCount # <<Len(cacheTask[p].current.expenses)>>

\* C13: in the localStorage cache, when the incremental query has returned
\* nothing and the server's record count differs from the number of cached
\* records, the same cycle of sync requests the whole list, and what it then
\* saves and publishes is that list (names resolved), not a merge with the
\* cached records.
C13_CountMismatchForcesFullPull ==
  [][\A p \in Tasks :
       /\ CountMismatch(p) =>
            /\ cacheTask'[p].pc = "full"
            /\ cacheTask'[p].force
            /\ UNCHANGED <<localStorage, cacheState>>
       /\ PullsAfterMismatch(p) /\ cacheTask[p].pc = "full"
             /\ Becomes(cacheFull(World, p, TRUE)) =>
            /\ cacheTask'[p].pc = "resolve"
            /\ cacheTask'[p].merged = searchExpenses(remote, 0)
       /\ PullsAfterMismatch(p) /\ cacheTask[p].pc = "resolve"
             /\ cacheTask'[p].pc = "idle" =>
            /\ cacheState'.expenses \in {cacheTask[p].merged,
                                         resolvePartnerNames(cacheTask[p].merged)}
            /\ localStorage'.present
            /\ localStorage'.expenses = cacheState'.expenses
            /\ localStorage'.meta.recordCount = Len(cacheTask[p].merged)]_vars

\* a cycle has found a mismatch and pulled the whole list, which differs
\* from the records it read from the store
C13_Witness ==
  \E p \in Tasks :
     /\ cacheTask[p].pc = "resolve"
     /\ PullsAfterMismatch(p)
     /\ cacheTask[p].force
     /\ cacheTask[p].merged = searchExpenses(remote, 0)
     /\ IdsOf(cacheTask[p].merged) # IdsOf(cacheTask[p].current.expenses)
     /\ cacheState.expenses = cacheTask[p].current.expenses

\* the store after the full pull awaited in slot p has been merged
MergedOnce(p) == syncResponse(World, p, TRUE)

\* the store after a second sync(true) has read the store left by the first,
\* received the same list from the server and merged it
MergedTwice(p) ==
  syncResponse([MergedOnce(p) EXCEPT
                  !.task[p] = [task[p] EXCEPT !.cached = loadFromDB(MergedOnce(p).expenses)]],
               p, TRUE)

\* C14: merging the result of a full pull into the local store a second time
\* (a second successful sync(true), the server unchanged and nothing written
\* in between) leaves the store with the same records, keys and field values
\* as merging it once.
C14_FullPullMergeIdempotent ==
  \A p \in Tasks :
     task[p].kind = "sync" /\ task[p].pc = "search" /\ task[p].force =>
        MergedTwice(p).expenses = MergedOnce(p).expenses

\* a forced pull whose merge changes the store, which holds local records
\* and receives records from the server
C14_Witness ==
  \E p \in Tasks :
     /\ task[p].kind = "sync" /\ task[p].pc = "search" /\ task[p].force
     /\ MergedOnce(p).expenses # expenses
     /\ \E id \in DOMAIN expenses : IsLocalId(id)
     /\ searchExpenses(remote, 0) # <<>>

RECURSIVE SumOf(_)
SumOf(entries) ==
  IF entries = <<>> THEN 0 ELSE Head(entries).balance + SumOf(Tail(entries))

Abs(x) == IF x < 0 THEN 0 - x ELSE x

\* the payer of the expense takes no share of it
PayerOutside(expense) ==
  expense.x_studio_who_paid \notin Range(expense.x_studio_participants)

\* somebody is listed twice among the participants of the expense
ListedTwice(expense) ==
  Cardinality(Range(expense.x_studio_participants)) < Len(expense.x_studio_participants)

\* C15: the balances calculateBalances returns for a list of expenses sum to
\* zero: exactly before rounding (expenseUtils.js), and within one cent per
\* person after the rounding to cents of the other variant; payers who take
\* no share and participants listed twice included.
C15_BalancesSumToZero ==
  /\ calc.by = "expenseUtils" => SumOf(calc.entries) = 0
  /\ calc.by = "expenseCalculations" =>
        Abs(SumOf(calc.entries)) <= Cent * Len(calc.entries)

\* rounded balances that do not sum to zero, for a list in which a payer
\* takes no share and somebody is listed twice
C15_Witness ==
  /\ calc.by = "expenseCalculations"
  /\ SumOf(calc.entries) # 0
  /\ \E i \in DOMAIN calc.expenses : PayerOutside(calc.expenses[i])
  /\ \E i \in DOMAIN calc.expenses : ListedTwice(calc.expenses[i])

\* what is left of a person's balance once every transfer has been made: a
\* debtor's balance rises by what they pay, a creditor's falls by what they get
RECURSIVE Received(_, _)
Received(person, settlements) ==
  IF settlements = <<>> THEN 0
  ELSE (IF Head(settlements).to = person THEN Head(settlements).amount ELSE 0)
       - (IF Head(settlements).from = person THEN Head(settlements).amount ELSE 0)
       + Received(person, Tail(settlements))

Remaining(entry, settlements) == entry.balance - Received(entry.person, settlements)

\* C16: making every transfer calculateSettlements returns for a balance map
\* of calculateBalances leaves each person's balance within one cent of zero.
C16_SettlementsClearBalances ==
  calc.settled =>
    \A i \in DOMAIN calc.entries :
       Abs(Remaining(calc.entries[i], calc.settlements)) <= Cent

\* which person a key of the balances object, or a party of a transfer, names
Who(key) == key[2]

BalanceOf(entries) == [i \in DOMAIN entries |-> <<Who(entries[i].person), entries[i].balance>>]

TransfersOf(settlements) ==
  [i \in DOMAIN settlements |->
     <<Who(settlements[i].from), Who(settlements[i].to), settlements[i].amount>>]

\* one expense of 30, paid by person 1 and shared by persons 1, 2 and 3
ThirtyAmongThree ==
  \E form \in {"name", "id"} :
     calc.expenses = <<ExpenseOf(form, 1, 3000 * Cent, <<1, 2, 3>>)>>

EachPaidOne ==
  \E form \in {"name", "id"}, amount \in Amounts, a, b \in People :
     /\ a # b
     /\ \E first, second \in {<<a, b>>, <<b, a>>} :
           calc.expenses = <<ExpenseOf(form, a, amount, first),
                             ExpenseOf(form, b, amount, second)>>

\* C18: for two expenses of equal amount, one paid by A and one by B, both
\* shared by A and B, calculateBalances returns a map that holds both A and B
\* with balance 0, and calculateSettlements returns the empty list.
C18_EvenExpensesCancel ==
  EachPaidOne =>
    /\ calc.by # "input" =>
          /\ Len(calc.entries) = 2
          /\ {Who(calc.entries[i].person) : i \in DOMAIN calc.entries} =
               {Who(calc.expenses[i].x_studio_who_paid) : i \in DOMAIN calc.expenses}
          /\ \A i \in DOMAIN calc.entries : calc.entries[i].balance = 0
    /\ calc.settled => calc.settlements = <<>>

C18_Witness ==
  /\ EachPaidOne /\ calc.by = "expenseUtils" /\ calc.settled
  /\ calc.expenses[1].x_studio_value = 1000 * Cent
  /\ Len(calc.entries) = 2

\* the queue after this step holds the queue before it and one more item
OneMoreItem(operation, remoteId) ==
  /\ \A k \in DOMAIN queue : k \in DOMAIN queue' /\ queue'[k] = queue[k]
  /\ \E k \in DOMAIN queue' \ DOMAIN queue :
        /\ DOMAIN queue' = DOMAIN queue \cup {k}
        /\ queue'[k].operation = operation
        /\ queue'[k].model = "expense"
        /\ queue'[k].remoteId = remoteId
        /\ queue'[k].status = "pending"

\* C19: deleteExpense(id) removes the record stored under id and leaves the
\* other records alone; before it goes on to drain the queue it has added
\* exactly one 'delete' item with remoteId = id when id is a remote id, and
\* nothing when id is a local key.
C19_DeleteQueuesOneRemoteDelete ==
  [][\A p \in Tasks :
       /\ task[p].kind = "idle" /\ task'[p].kind = "deleteExpense" =>
            /\ task'[p].id \notin DOMAIN expenses'
            /\ \A k \in DOMAIN expenses \ {task'[p].id} :
                  k \in DOMAIN expenses' /\ expenses'[k] = expenses[k]
            /\ UNCHANGED queue
       /\ task[p].kind = "deleteExpense" =>
            /\ UNCHANGED expenses
            /\ task[p].id \notin DOMAIN expenses
            /\ IF task[p].pc = "afterWrite" /\ task'[p].pc # "afterWrite"
                  /\ IsRemoteId(task[p].id)
               THEN OneMoreItem("delete", task[p].id)
               ELSE UNCHANGED queue]_vars

\* a record pulled from the server has been deleted and the delete is queued
C19_Witness ==
  \E p \in Tasks :
     /\ task[p].kind = "deleteExpense" /\ task[p].pc = "queued"
     /\ IsRemoteId(task[p].id)
     /\ task[p].id \notin DOMAIN expenses
     /\ Cardinality({k \in DOMAIN queue : queue[k].operation = "delete"
                                           /\ queue[k].remoteId = task[p].id}) = 1

\* C20: in the expenses store every record marked 'synced' is stored under a
\* remote id; no record under a local key is marked 'synced'.
C20_SyncedHasRemoteId ==
  \A k \in DOMAIN expenses :
     expenses[k].syncStatus = "synced" => IsRemoteId(k) /\ expenses[k].id = k

\* a pull has marked a record of the server as synced while the store holds
\* a record created offline
C20_Witness ==
  /\ \E k \in DOMAIN expenses : IsRemoteId(k) /\ expenses[k].syncStatus = "synced"
  /\ \E k \in DOMAIN expenses : IsLocalId(k) /\ expenses[k].syncStatus = "pending"
  /\ lastExpenseSync > 0

\* the full query forceRefresh has issued in slot p fails
RefreshFails(p) ==
  /\ cacheTask[p].pc = "full"
  /\ cacheTask[p].stored.present
  /\ Becomes(cacheFull(World, p, FALSE))

\* C30: when the remote query of expenseCache.forceRefresh() fails, the cache
\* that localStorage held before the call is still there afterwards (or a
\* newer one another cycle has saved meanwhile), and a later load returns it.
C30_FailedRefreshKeepsStorage ==
  [][\A p \in Tasks : RefreshFails(p) =>
       /\ localStorage'.present
       /\ \/ localStorage' = cacheTask[p].stored
          \/ localStorage'.meta.lastSyncTime >= cacheTask[p].stored.meta.lastSyncTime
       /\ loadFromStorage(localStorage') # NoCache]_vars

\* an expense that counts: an amount above zero, a payer, somebody sharing
Eligible(expense) ==
  /\ expense.x_studio_value > 0
  /\ expense.x_studio_who_paid # NoPerson
  /\ expense.x_studio_participants # <<>>

EligibleOf(list) == SelectSeq(list, Eligible)

\* the people the eligible expenses of the list name
EligiblePeople(list) ==
  UNION {{Who(EligibleOf(list)[i].x_studio_who_paid)}
           \cup {Who(q) : q \in Range(EligibleOf(list)[i].x_studio_participants)} :
         i \in DOMAIN EligibleOf(list)}

Incremental(p) ==
  /\ task[p].kind = "sync" /\ task[p].pc = "search" /\ ~task[p].force
  /\ \E i \in DOMAIN task[p].cached : IsRemoteId(task[p].cached[i].id)

\* C25: the write of an incremental pull removes no record from the expenses
\* store and changes no record the store already holds; it only adds records
\* under ids the store did not hold.
C25_IncrementalPullOnlyAdds ==
  [][\A p \in Tasks :
       Incremental(p) /\ task'[p].pc = "saved" =>
         \A id \in DOMAIN expenses :
           id \in DOMAIN expenses' /\ expenses'[id] = expenses[id]]_vars

\* forceRefresh(), which is sync(true), returns in this step: at once when
\* the browser is offline, otherwise at the end of its cycle
RefreshReturns(p) ==
  \/ /\ task[p].kind = "idle" /\ ~online
     /\ Becomes(sync(Started(World), p, TRUE))
  \/ /\ task[p].kind = "sync" /\ task[p].force
     /\ task'[p].kind = "idle"

\* C22 as stated: every call of forceRefresh() returns after a full pull has
\* been saved, with the published isStale flag false.
C22_RefreshAlwaysPulls ==
  [][\A p \in Tasks : RefreshReturns(p) =>
       /\ task[p].pc = "publish"
       /\ state'.isStale = FALSE]_vars

\* C22, amended: a forceRefresh() whose remote query is answered merges the
\* whole list of the server, whatever ids are cached, and when the cycle
\* completes isStale is false; the call returns without a pull only when the
\* browser is offline, and without clearing the flag only then or when the
\* query has failed, which it reports in state.error.
C22_RefreshPullsAllWhenAnswered ==
  [][\A p \in Tasks :
       /\ task[p].kind = "sync" /\ task[p].force /\ task[p].pc = "search"
             /\ task'[p].pc = "saved" =>
            ItemIds(SelectSeq(task'[p].merged, LAMBDA e : IsRemoteId(e.id))) = DOMAIN remote
       /\ RefreshReturns(p) =>
            \/ task[p].pc = "publish" /\ state'.isStale = FALSE /\ state'.error = ""
            \/ task[p].pc = "search" /\ state'.error # "" /\ state'.isStale = state.isStale
            \/ task[p].kind = "idle" /\ ~online /\ state' = state]_vars

\* a forced cycle has saved the whole list of the server although a record
\* with a remote id was cached, and is about to clear the flag
C22_Witness ==
  \E p \in Tasks :
     /\ task[p].kind = "sync" /\ task[p].force /\ task[p].pc = "publish"
     /\ remote # EmptyStore
     /\ ItemIds(SelectSeq(task[p].merged, LAMBDA e : IsRemoteId(e.id))) = DOMAIN remote
     /\ state.isStale

\* the queue entries that still have to reach the server and name record k
Outstanding(k) ==
  {i \in DOMAIN queue :
     /\ queue[i].status \in {"pending", "syncing", "failed"}
     /\ queue[i].localId = k \/ queue[i].remoteId = k}

\* createExpense or updateExpense has written record k and has not queued
\* its operation yet
BeingQueued(k) ==
  \E p \in Tasks :
     /\ task[p].kind \in {"createExpense", "updateExpense"}
     /\ task[p].pc = "afterWrite"
     /\ task[p].id = k

\* C23: every record of the expenses store marked 'pending' (every record
\* under a local key in particular) has an outstanding sync-queue entry that
\* names it, once the mutation that wrote it has queued its operation; this
\* is so also after an operation has been given up at the retry ceiling.
C23_PendingRecordsAreQueued ==
  \A k \in DOMAIN expenses :
     expenses[k].syncStatus = "pending" /\ ~BeingQueued(k) => Outstanding(k) # {}

\* two queue items name the same expense
SameExpense(a, b) ==
  \/ a.remoteId # Null /\ a.remoteId = b.remoteId
  \/ a.localId # Null /\ a.localId = b.localId

\* the remote call for the item slot p has dispatched succeeds in this step
DispatchSucceeds(p) ==
  /\ task[p].pc = "processQueueItem"
  /\ LET item == task[p].items[task[p].idx]
     IN RemoteCall(item) = "none" \/ RemoteAccepts(World, item)
  /\ Becomes(psqResponse(World, p, TRUE))

\* C24: an operation is applied to the server only when no operation queued
\* earlier for the same expense is still in the queue; a failure of the
\* earlier one in a drain does not let the later one of the same drain
\* overtake it. Queue ids are handed out in enqueue order.
C24_NoOvertaking ==
  [][\A p \in Tasks : DispatchSucceeds(p) =>
       LET item == task[p].items[task[p].idx]
       IN \A i \in DOMAIN queue :
            i < item.id => ~SameExpense(queue[i], item)]_vars

\* C21: what the user did to a record is what the drained queue leaves on the
\* server. When the create queued for a local record is applied and nothing
\* else is queued for that record, the record is still stored (it was not
\* deleted in the meantime) and the server's new record has the payer the
\* stored record has (it carries the updates made in the meantime).
C21_DrainedCreateReflectsMutations ==
  [][\A p \in Tasks :
       DispatchSucceeds(p) /\ RemoteCall(task[p].items[task[p].idx]) = "create" =>
         LET item == task[p].items[task[p].idx]
             created == remote'[nextRemoteId]
         IN \/ \E i \in DOMAIN queue :
                 i # item.id /\ queue[i].localId = item.localId
            \/ /\ item.localId \in DOMAIN expenses
               /\ created.x_studio_who_paid[2] =
                    expenses[item.localId].x_studio_who_paid[2]]_vars

SvcActive == {c \in Cycles : service.cycle[c].pc # "idle"}

\* what a call of a remote endpoint or a write to a table can change
SvcData(s) == <<s.server, s.nextServerId, s.syncQueue, s.nextItemId, s.expenses,
                s.nextLocalId, s.lastSync>>

\* C27: at most one activation of syncAll is running; isSyncing is set
\* exactly while one is; the events alternate between sync:start and one of
\* sync:success and sync:error; and a call that finds isSyncing set changes
\* neither the server nor a table, emits nothing and starts nothing.
C27_OneCycleAtATime ==
  /\ [](/\ Cardinality(SvcActive) <= 1
        /\ service.isSyncing <=> SvcActive # {}
        /\ Len(service.events) % 2 = Cardinality(SvcActive)
        /\ \A i \in DOMAIN service.events :
             IF i % 2 = 1 THEN service.events[i] = "sync:start"
             ELSE service.events[i] \in {"sync:success", "sync:error"})
  /\ [][service'.dropped # service.dropped =>
          /\ SvcData(service') = SvcData(service)
          /\ service'.cycle = service.cycle
          /\ service'.events = service.events
          /\ service'.isSyncing = service.isSyncing]_vars

C27_Witness ==
  /\ service.dropped = 1
  /\ ~service.isSyncing
  /\ service.events = <<"sync:start", "sync:error", "sync:start", "sync:success">>

\* the activation in slot c receives the items it will handle in this step
SvcSelects(c) ==
  /\ service.cycle[c].pc = "saveExpenseGroups"
  /\ service'.cycle[c].pc = "getPendingSyncItems"

\* C26: an item whose remote call has failed, and which has not failed
\* SvcMaxRetries times yet, is among the items every later activation of
\* syncAll selects, as long as it is in the queue.
C26_FailedItemsAreRetried ==
  [][\A c \in Cycles : SvcSelects(c) =>
       \A i \in DOMAIN service.syncQueue :
         service.syncQueue[i].retries \in 1..(SvcMaxRetries - 1) =>
           \E k \in DOMAIN service'.cycle[c].items :
             service'.cycle[c].items[k].id = i]_vars

\* the sync cycle in slot p sends its pull query in this step
OfflinePulls(p) ==
  /\ task[p].ret = "sync"
  /\ task[p].pc \in DrainPcs \cup {"reload"}
  /\ task'[p].pc = "search"

\* the run of processSyncQueue inside the sync cycle in slot p has an item
\* it has not finished with
OfflinePushing(p) ==
  /\ task[p].ret = "sync"
  /\ task[p].pc \in DrainPcs
  /\ \/ task[p].pc = "processQueueItem"
     \/ task[p].idx < Len(task[p].items)
     \/ task[p].pc = "loop" /\ task[p].items # <<>>

\* the activation of syncAll in slot c sends its pull query in this step
ServicePulls(c) ==
  /\ service.cycle[c].pc # "searchExpenses"
  /\ service'.cycle[c].pc = "searchExpenses"

\* C28: a cycle sends its pull query only when the push is over. In
\* offlineExpenseCache.sync the run of processSyncQueue has by then gone
\* through all the items it selected and has the outcome of the last one; in
\* SyncService.syncAll every item the cycle selected is by then gone from the
\* queue (it succeeded) or is marked 'error' or 'failed'.
C28_PullAfterPush ==
  [][/\ \A p \in Tasks :
          task[p].ret = "sync" /\ task[p].pc \in DrainPcs /\ task'[p].pc \notin DrainPcs
            => ~OfflinePushing(p)
     /\ \A p \in Tasks :
          task'[p].pc = "search" /\ task[p].pc # "search" => OfflinePulls(p)
     /\ \A c \in Cycles : ServicePulls(c) =>
          \A k \in DOMAIN service.cycle[c].items :
            LET id == service.cycle[c].items[k].id
            IN \/ id \notin DOMAIN service'.syncQueue
               \/ service'.syncQueue[id].status \in {"error", "failed"}]_vars

C28_Witness ==
  \E c \in Cycles :
    /\ service.cycle[c].pc = "searchExpenses"
    /\ Len(service.cycle[c].items) = 2
    /\ 1 \notin DOMAIN service.syncQueue
    /\ 2 \in DOMAIN service.syncQueue
    /\ service.syncQueue[2].status = "error"

\* the create operations queued so far: one per local key generated
CreatesQueued == nextLocalId - 1

\* the records the server has created so far; the first id it gave out was 2
RemoteCreates == nextRemoteId - 2

\* C31: the server creates at most one record per create operation queued,
\* however the runs of processSyncQueue overlap: it has never created more
\* records than create operations have been queued.
C31_OneRemoteCreatePerOperation == RemoteCreates <= CreatesQueued

\* ------------------------- the user acts while a sync cycle is in flight
\* a sync cycle is between its first await and its end
SyncInFlight == \E q \in Tasks : task[q].kind = "sync"

\* the user's call takes the first free slot while a cycle is in flight
During(p) ==
  /\ task[p].kind = "idle"
  /\ \A q \in Tasks : q < p => task[q].kind # "idle"
  /\ \A q \in Tasks : ~task[q].user
  /\ started < MaxStarts
  /\ SyncInFlight

CreateExpenseDuringSync(p) ==
  /\ During(p)
  /\ nextLocalId <= MaxLocal
  /\ QueueRoom
  /\ \E payer \in Partners, t \in Times(World) :
       Becomes(createExpense(Started(World), p, Fields(payer), t))

UpdateExpenseDuringSync(p) ==
  /\ During(p)
  /\ QueueRoom
  /\ \E id \in KnownIds, payer \in Partners :
       Becomes(updateExpense(Started(World), p, id, Values(payer)))

DeleteExpenseDuringSync(p) ==
  /\ During(p)
  /\ QueueRoom
  /\ \E id \in KnownIds : Becomes(deleteExpense(Started(World), p, id))

\* the steps of a sync cycle and of a call of the user
RaceStep(p) ==
  \/ GetPendingItems(p)
  \/ Loop(p)
  \/ ProcessQueueItem(p)
  \/ AfterSuccess(p)
  \/ AfterCleanup(p)
  \/ AfterFailure(p)
  \/ SyncReload(p)
  \/ SyncSearch(p)
  \/ SyncSaved(p)
  \/ SyncPublish(p)
  \/ UpdateFound(p)
  \/ AfterWrite(p)
  \/ Queued(p)
  \/ PublishMutation(p)

RaceNext ==
  \/ \E p \in Tasks : StartSync(p) \/ RaceStep(p)
  \/ \E p \in Tasks : CreateExpenseDuringSync(p)
  \/ \E p \in Tasks : UpdateExpenseDuringSync(p)
  \/ \E p \in Tasks : DeleteExpenseDuringSync(p)
  \/ GoOnline

RaceSpec == Init /\ [][RaceNext]_vars

UserKinds == {"createExpense", "updateExpense", "deleteExpense"}

\* the sync cycle in slot p gets the answer to its query and writes the
\* merged list with putMany in this step
Persists(p) == task[p].pc = "search" /\ task'[p].pc = "saved"

\* the copies loadFromDB returned to the cycle that are part of the merged
\* list it writes
CopiesWritten(p) == Range(task[p].cached) \cap Range(task'[p].merged)

\* C32: when a sync cycle writes its merged list and no call of the user is
\* still running, every copy it writes back is of a record that is still in
\* the expenses store (it was not deleted, nor removed after its create
\* drained, since the cycle read it), and the stored record names the same
\* payer as the copy (it was not updated since).
C32_PullKeepsConcurrentMutations ==
  [][\A p \in Tasks :
       Persists(p) /\ (\A q \in Tasks : task[q].kind \notin UserKinds) =>
         \A e \in CopiesWritten(p) :
           /\ e.id \in DOMAIN expenses
           /\ expenses[e.id].x_studio_who_paid[2] = e.x_studio_who_paid[2]]_vars

\* the remote ids whose delete operation is in the queue q
OutstandingDeletes(q) ==
  {q[i].remoteId : i \in {j \in DOMAIN q : q[j].operation = "delete"}}

\* C33: no step of a sync cycle puts a record into the expenses store, or
\* into the published list, under an id whose delete operation is in the
\* queue after the step.
C33_DeletedStaysDeleted ==
  [][\A p \in Tasks :
       task[p].kind = "sync" /\ task'[p] # task[p] =>
         \A id \in OutstandingDeletes(queue') :
           /\ id \in DOMAIN expenses' => id \in DOMAIN expenses
           /\ id \in IdsOf(state'.expenses) => id \in IdsOf(state.expenses)]_vars

\* the sync cycle in slot p publishes its result and ends without error in
\* this step
SyncCompletes(p) == task[p].pc = "publish" /\ task'[p].pc = "idle"

\* C34: when a sync cycle has completed without error and the queue is empty,
\* no record the server holds with the payer the store holds for it (its
\* update has drained successfully) is 'pending' in the expenses store.
C34_DrainedUpdateIsSyncedAgain ==
  [][\A p \in Tasks :
       SyncCompletes(p) /\ queue' = EmptyStore =>
         \A id \in DOMAIN expenses' \cap DOMAIN remote' :
           remote'[id].x_studio_who_paid[2] = expenses'[id].x_studio_who_paid[2] =>
             expenses'[id].syncStatus # "pending"]_vars

\* ------------------------------ processSyncQueue on any entries of the queue
\* what queueOperation (syncQueue.js lines 48-61) can have put into the queue
\* for its callers: any operation on either model, with or without a remote id
Operations == {"create", "update", "delete"}

Models == {"expense", "group"}

ApiItems(id, timestamp) ==
  {[NewItem(id, operation, NoData, Null, remoteId, timestamp) EXCEPT !.model = model] :
     operation \in Operations, model \in Models, remoteId \in {Null, 1}}

QueueInit ==
  /\ online \in BOOLEAN
  /\ now = 1
  /\ remote = put(EmptyStore, ServerRecord)
  /\ nextRemoteId = 2
  /\ expenses = put(EmptyStore, CachedRecord)
  /\ queue \in {putMany(EmptyStore, <<a, b>>) : a \in ApiItems(1, 0), b \in ApiItems(2, 1)}
  /\ attempts = [i \in 1..MaxQueueId |-> 0]
  /\ nextQueueId = 3
  /\ nextLocalId = 1
  /\ lastExpenseSync = 0
  /\ state = initialState
  /\ syncStatus = initialStatus
  /\ task = [p \in Tasks |-> IdleTask]
  /\ started = 0
  /\ localStorage = NoStorage
  /\ cacheState = cacheInitialState(NoStorage)
  /\ cacheTask = [p \in Tasks |-> IdleCycle]
  /\ calc = NoCalc
  /\ service = NoService
  /\ groupCache = NoGroupCache

QueueStep(p) ==
  \/ StartProcessSyncQueue(p)
  \/ GetPendingItems(p)
  \/ Loop(p)
  \/ ProcessQueueItem(p)
  \/ AfterSuccess(p)
  \/ AfterCleanup(p)
  \/ AfterFailure(p)

QueueNext == \E p \in Tasks : QueueStep(p)

QueueSpec == QueueInit /\ [][QueueNext]_vars

SvcCreates(c) ==
  /\ service.cycle[c].pc = "syncExpenseItem"
  /\ service'.nextServerId # service.nextServerId

\* C36: the server creates a record for a local expense only once: when a
\* create succeeds, the local record the item was queued for, if it is still
\* stored, has no server id yet.
C36_OneRemoteCreatePerExpense ==
  [][\A c \in Cycles : SvcCreates(c) =>
       LET item == service.cycle[c].items[service.cycle[c].idx]
       IN \A k \in DOMAIN service.expenses :
            service.expenses[k].localId = item.data.localId =>
              service.expenses[k].id = Null]_vars

\* the people calculateSettlements takes for creditors and for debtors
CreditorsOf(entries) ==
  {entries[i].person : i \in {k \in DOMAIN entries : entries[k].balance > Cent}}

DebtorsOf(entries) ==
  {entries[i].person : i \in {k \in DOMAIN entries : entries[k].balance < 0 - Cent}}

RECURSIVE TotalOf(_, _, _)
\* what the transfers of a list move from (side "from") or to (side "to") a person
TotalOf(side, person, settlements) ==
  IF settlements = <<>> THEN 0
  ELSE (IF Head(settlements)[side] = person THEN Head(settlements).amount ELSE 0)
       + TotalOf(side, person, Tail(settlements))

\* every balance is a whole number of thirds of a cent, so that no amount
\* calculateSettlements rounds lies half-way between two cents
NoHalfCents(entries) ==
  \A i \in DOMAIN entries : entries[i].balance % (Cent \div 3) = 0

\* C37: calculateSettlements returns, for a balance map without half cents,
\* no more transfers than there are creditors and debtors less one; every
\* transfer has a positive amount, goes from a person whose balance is below
\* -0.01 to a person whose balance is above 0.01; and no debtor pays, and no
\* creditor receives, more in total than the absolute value of their balance.
C37_SettlementsWithinBalances ==
  calc.settled /\ NoHalfCents(calc.entries) =>
    /\ \/ calc.settlements = <<>>
       \/ Len(calc.settlements) <=
            Cardinality(CreditorsOf(calc.entries)) + Cardinality(DebtorsOf(calc.entries)) - 1
    /\ \A k \in DOMAIN calc.settlements :
         /\ calc.settlements[k].amount > 0
         /\ calc.settlements[k].from \in DebtorsOf(calc.entries)
         /\ calc.settlements[k].to \in CreditorsOf(calc.entries)
    /\ \A i \in DOMAIN calc.entries :
         /\ TotalOf("from", calc.entries[i].person, calc.settlements)
              <= Abs(calc.entries[i].balance)
         /\ TotalOf("to", calc.entries[i].person, calc.settlements)
              <= Abs(calc.entries[i].balance)

\* C38: in every state the offlineExpenseCache store publishes, balances is
\* what calculateBalances returns for the expenses of that state, however
\* sync cycles and the calls of the user interleave.
C38_PublishedBalancesMatchExpenses ==
  state.balances = calculateBalances(state.expenses)

\* a call of the user has published its list, with somebody owing something,
\* while a sync cycle is waiting for the answer to its query
C38_Witness ==
  \E p, q \in Tasks :
    /\ task[p].kind = "sync"
    /\ task[p].pc = "search"
    /\ task[q].user
    /\ task[q].kind = "processSyncQueue"
    /\ state.expenses # <<>>
    /\ \E k \in DOMAIN state.balances : state.balances[k] # 0

\* ------------------------- the per-group expenseCache (part_002): operations
Regroup(c) == Becomes([World EXCEPT !.groupCache = c])

\* part_002 lines 46-95; stale is the outcome of the comparison of line 74
groupLoadFromStorage(c, groupId, stale) ==
  IF groupId = Null THEN [expenses |-> <<>>, meta |-> GroupNoMeta]
  ELSE IF c.storage[groupId].present
  THEN [expenses |-> c.storage[groupId].expenses,
        meta |-> [c.storage[groupId].meta EXCEPT !.isStale = stale]]
  ELSE [expenses |-> <<>>, meta |-> [GroupNoMeta EXCEPT !.selectedGroupId = groupId]]

\* part_002 lines 97-115
groupSaveToStorage(storage, list, meta) ==
  IF meta.selectedGroupId = Null THEN storage
  ELSE [storage EXCEPT ![meta.selectedGroupId] =
          [present |-> TRUE, expenses |-> list,
           meta |-> [lastRecordId |-> meta.lastRecordId, recordCount |-> Len(list),
                     isStale |-> FALSE, selectedGroupId |-> meta.selectedGroupId]]]

\* odooClient.searchExpenses with the domain of lines 255-267 and 289-292:
\* the group filter when a group is selected, and ['id', '>', minId]
groupSearch(server, groupId, minId) ==
  SelectSeq(server, LAMBDA e :
    /\ groupId # Null => e.x_studio_expensegroup = groupId
    /\ e.id > minId)

\* part_002 lines 234-294, sync up to its first await: the indicator, the
\* snapshot of the store and the choice of the first query
groupSync(c, p, forceFullRefresh, after) ==
  LET currentState == [c.state EXCEPT !.syncing = TRUE, !.error = ""]
      first ==
        IF /\ ~forceFullRefresh
           /\ currentState.meta.lastRecordId > 0
           /\ currentState.meta.selectedGroupId = currentState.selectedGroupId
        THEN "incremental"
        ELSE IF forceFullRefresh \/ currentState.meta.lastRecordId = 0 THEN "full"
        ELSE "resolve"
  IN [c EXCEPT !.state = currentState,
               !.sync[p] = [pc |-> first, force |-> forceFullRefresh,
                            current |-> currentState, fetched |-> <<>>,
                            after |-> after, held |-> {}]]

\* what the caller of sync does when sync returns: lines 397 and 464
groupReturn(shown, after) ==
  IF after = "loaded" THEN [shown EXCEPT !.loading = FALSE] ELSE shown

\* part_002 lines 357-364, the catch of sync
groupSyncFailed(c, p) ==
  [c EXCEPT !.state = groupReturn([c.state EXCEPT !.syncing = FALSE,
                                                  !.error = "Failed to sync data"],
                                  c.sync[p].after),
            !.sync[p] = IdleGroupSync]

FreeSync(p) ==
  /\ groupCache.sync[p].pc = "idle"
  /\ \A q \in Tasks : q < p => groupCache.sync[q].pc # "idle"

\* sync() of the interval (lines 405-407) and forceRefresh (lines 419-423)
GroupSync(p) ==
  /\ FreeSync(p)
  /\ groupCache.syncs < MaxGroupSyncs
  /\ \E force \in BOOLEAN :
       Regroup([groupSync(groupCache, p, force, "none") EXCEPT !.syncs = @ + 1])

\* part_002 lines 269-285: the answer to the incremental query
GroupIncremental(p) ==
  LET s == groupCache.sync[p]
      answer == groupSearch(groupCache.server, s.current.selectedGroupId,
                            s.current.meta.lastRecordId)
  IN /\ s.pc = "incremental"
     /\ \/ Regroup([groupCache EXCEPT !.sync[p].force = TRUE, !.sync[p].pc = "full"])
        \/ Regroup([groupCache EXCEPT
                      !.sync[p].fetched = answer,
                      !.sync[p].held =
                        IdsOf(groupSearch(groupCache.server, s.current.selectedGroupId, 0)),
                      !.sync[p].pc = IF answer = <<>> THEN "count" ELSE "resolve"])

\* part_002 lines 275-279: the answer to the count query, which has no domain
GroupCount(p) ==
  LET s == groupCache.sync[p]
      totalCount == groupSearch(groupCache.server, Null, 0)
  IN /\ s.pc = "count"
     /\ \/ Regroup([groupCache EXCEPT !.sync[p].force = TRUE, !.sync[p].pc = "full"])
        \/ Regroup([groupCache EXCEPT
                      !.sync[p].force = Len(totalCount) # Len(s.current.expenses),
                      !.sync[p].pc = IF Len(totalCount) # Len(s.current.expenses)
                                     THEN "full" ELSE "resolve"])

\* part_002 lines 287-294: the answer to the full query
GroupFull(p) ==
  LET s == groupCache.sync[p]
      answer == groupSearch(groupCache.server, s.current.selectedGroupId, 0)
  IN /\ s.pc = "full"
     /\ \/ Regroup(groupSyncFailed(groupCache, p))
        \/ Regroup([groupCache EXCEPT !.sync[p].fetched = answer,
                                      !.sync[p].held = IdsOf(answer),
                                      !.sync[p].pc = "resolve"])

\* part_002 lines 296-355, after resolvePartnerNames: merge or replace, sort,
\* store and publish
groupPublish(c, p) ==
  LET s == c.sync[p]
      currentState == s.current
      mergedExpenses ==
        IF s.force \/ currentState.meta.lastRecordId = 0 THEN s.fetched
        ELSE MergeFetched(currentState.expenses, s.fetched)
      expensesWithNames == SortById(mergedExpenses)
      newMeta ==
        [lastRecordId |-> IF expensesWithNames = <<>> THEN 0
                          ELSE MaxOf(IdsOf(expensesWithNames)),
         recordCount |-> Len(expensesWithNames),
         isStale |-> FALSE,
         selectedGroupId |-> currentState.selectedGroupId]
  IN [c EXCEPT
        !.storage = groupSaveToStorage(c.storage, expensesWithNames, newMeta),
        !.state = groupReturn([c.state EXCEPT
                                 !.expenses = expensesWithNames,
                                 !.meta = newMeta,
                                 !.syncing = FALSE,
                                 !.error = "",
                                 !.selectedGroupId = currentState.selectedGroupId],
                              s.after),
        !.sync[p] = IdleGroupSync]

GroupPublish(p) ==
  /\ groupCache.sync[p].pc = "resolve"
  /\ Regroup(groupPublish(groupCache, p))

\* part_002 lines 426-468, setGroupFilter up to its first await
GroupSetGroupFilter(p) ==
  /\ FreeSync(p)
  /\ groupCache.set.pc = "idle"
  /\ groupCache.sets < MaxSets
  /\ \E groupId \in Groups, stale \in BOOLEAN :
       LET cachedState == groupLoadFromStorage(groupCache, groupId, stale)
           counted == [groupCache EXCEPT !.sets = @ + 1]
       IN IF cachedState.expenses # <<>>
          THEN Regroup([counted EXCEPT !.set = [pc |-> "resolve", groupId |-> groupId,
                                                cachedState |-> cachedState]])
          ELSE /\ stale   \* nothing is stored, so line 74 is not reached
               /\ Regroup(groupSync(
                    [counted EXCEPT
                       !.state = [@ EXCEPT !.selectedGroupId = groupId,
                                           !.expenses = <<>>,
                                           !.loading = TRUE,
                                           !.meta = [@ EXCEPT !.selectedGroupId = groupId,
                                                              !.isStale = TRUE]]],
                    p, TRUE, "loaded"))

\* part_002 lines 432-447: the cached list is shown, and synced when stale
GroupSetShown(p) ==
  LET set == groupCache.set
      shown == [groupCache EXCEPT
                  !.state = [@ EXCEPT !.selectedGroupId = set.groupId,
                                      !.expenses = set.cachedState.expenses,
                                      !.loading = FALSE,
                                      !.meta = set.cachedState.meta],
                  !.set = NoSet]
  IN /\ set.pc = "resolve"
     /\ FreeSync(p)
     /\ IF set.cachedState.meta.isStale
        THEN Regroup(groupSync(shown, p, FALSE, "none"))
        ELSE p = 1 /\ Regroup(shown)

\* the remote gains a record of some group
GroupServerCreate ==
  /\ Len(groupCache.server) < MaxRemoteId
  /\ \E g \in Groups :
       Regroup([groupCache EXCEPT
                  !.server = Append(@, [id |-> Len(@) + 1, x_studio_expensegroup |-> g])])

\* the page after initialize() ran with no group selected: nothing is loaded
\* and the interval is set (lines 368-408); the remote holds one record of
\* each group
GroupInit ==
  /\ AtRest
  /\ localStorage = NoStorage
  /\ cacheState = cacheInitialState(NoStorage)
  /\ cacheTask = [p \in Tasks |-> IdleCycle]
  /\ calc = NoCalc
  /\ service = NoService
  /\ groupCache = [NoGroupCache EXCEPT
                     !.server = [g \in Groups |-> [id |-> g, x_studio_expensegroup |-> g]]]

GroupNext ==
  \/ \E p \in Tasks : GroupSetGroupFilter(p)
  \/ \E p \in Tasks : GroupSetShown(p)
  \/ \E p \in Tasks : GroupSync(p)
  \/ \E p \in Tasks : GroupIncremental(p)
  \/ \E p \in Tasks : GroupCount(p)
  \/ \E p \in Tasks : GroupFull(p)
  \/ \E p \in Tasks : GroupPublish(p)
  \/ GroupServerCreate

GroupSpec == GroupInit /\ [][GroupNext]_vars

\* ------------------------------------------------------------------ C39
\* the step in which an activation of sync stores and publishes its list
GroupPublishes(p) ==
  groupCache.sync[p].pc = "resolve" /\ groupCache'.sync[p].pc = "idle"

\* C39: when a sync of the per-group store completes with group g selected,
\* no other sync being in flight, the published list and the list stored for
\* g hold every record the remote held for g when the sync's query was
\* answered
C39_SyncedGroupIsComplete ==
  [][\A p \in Tasks :
       LET s == groupCache.sync[p]
           g == s.current.selectedGroupId
       IN (/\ GroupPublishes(p)
           /\ g # Null
           /\ groupCache.state.selectedGroupId = g
           /\ \A q \in Tasks \ {p} : groupCache.sync[q].pc = "idle")
          => /\ s.held \subseteq IdsOf(groupCache'.state.expenses)
             /\ s.held \subseteq IdsOf(groupCache'.storage[g].expenses)]_vars

\* ------------------------------------------------------------------ C40
\* C40: once setGroupFilter(g) has published g, a sync that started under
\* another group neither changes the published selectedGroupId nor publishes
\* records of that other group
C40_StaleSyncKeepsSelectedGroup ==
  [][\A p \in Tasks :
       LET under == groupCache.sync[p].current.selectedGroupId
           g == groupCache.state.selectedGroupId
       IN (GroupPublishes(p) /\ under # Null /\ g # Null /\ under # g)
          => /\ groupCache'.state.selectedGroupId = g
             /\ \A e \in Range(groupCache'.state.expenses) :
                  e.x_studio_expensegroup # under]_vars

====
